---- MODULE Spec2Model ----
(***************************************************************************)
(* State-machine model of the k6 spike profile (tests/k6/spike.js) and of  *)
(* the posts API routes it drives (app/api/posts).                         *)
(*                                                                         *)
(* Simulated clients share the module-level testData object and the four   *)
(* custom metrics.  A client runs the default function in a loop; every    *)
(* http request and every sleep is a point where the other clients run.    *)
(***************************************************************************)
EXTENDS Integers, Sequences, FiniteSets, TLC

(***************************************************************************)
(* Program constants                                                       *)
(***************************************************************************)
\* testData.spikeStartTime / recoveryStartTime start as null; null behaves
\* as 0 in `Date.now() - null` and is falsy like 0.
Null == 0
\* if (currentVUs > 100)
HighWaterMark == 100
\* Date.now() - testData.recoveryStartTime > 5000
DwellMs == 5000
\* res.timings.duration < 500
ResponsiveMs == 500
\* the health request succeeded
StatusOK == 200
\* 'post created during spike': r.status === 201
StatusCreated == 201
StatusNotFound == 404
StatusBadRequest == 400
StatusConflict == 409
\* a request that failed in transport or was answered by an overloaded target
StatusUnavailable == 503
\* measureRecovery: timeout: '5s'
ProbeTimeoutMs == 5000
\* readSpike: the three endpoints
NumEndpoints == 3
\* Array.from({ length: 20 }, ...) / generatePosts(20)
NumSeedPosts == 20
\* generateUsers(10)
NumSeedUsers == 10

(***************************************************************************)
(* Bounds of the model                                                     *)
(***************************************************************************)
\* the clock advances MaxTicks times at most in a run of the state machine
MaxTicks == 4
\* and AppTicks times at most in a run against the application
AppTicks == 1
\* the 'data_integrity' Rate holds MaxObs observations at most
MaxObs == 2
\* the 'recovery_time' Trend holds MaxSamples samples at most
MaxSamples == 3
\* the 'errors' Rate holds MaxErrObs observations at most
MaxErrObs == 3
\* iterations of the default function one client runs in a life cycle
MaxIterations == 2

\* time advances of a soak run: pauses between monitoring iterations and
\* request latencies
MaxPauses == 1
MaxLatencies == 1
MaxChecks == 2

\* the like and view routes receive MaxCalls requests at most
MaxCalls == 3

\* the clients issue MaxCreates create requests at most
MaxCreates == 2

\* The clock advances in steps a little over half the dwell time, so that
\* one step is not enough and two steps are enough to pass the dwell time.
TickMs == DwellMs \div 2 + 100
\* Date.now() at the start of the run: a wall-clock time far above DwellMs
\* and above the ids of the seed posts.
Epoch == 2 * DwellMs

\* __VU of the clients in a run of the state machine: two of low index,
\* one above the mark
VUs == {1, 2, HighWaterMark + 1}
\* and in a run of the data scenarios: one of each
DataVUs == {1, HighWaterMark + 1}

\* options.stages: the target concurrency of each stage, in order.
Stages_LargerSpike == <<10, 300, 300, 10, 10, 5000, 500, 10, 10>>

Stages == <<10, 300, 300, 10, 10, 500, 500, 10, 10>>

\* the values of __ENV.K6_VUS of the model: <<>> is unset.
EnvChoices == {<< >>, <<10>>, <<300>>}

\* Math.random() drawn for the post id: two values are enough to tell
\* two payloads of the same millisecond apart.
RandomParts == {1, 2}
\* `user-${Math.floor(Math.random() * 5) + 1}`: one of the five author ids;
\* the harness sends it and never reads it back
AuthorIds == {1}

VARIABLES
  now,                \* Date.now()
  stageIdx,           \* the stage of options.stages the scheduler is in
  K6_VUS,             \* __ENV.K6_VUS
  spikeStartTime,     \* testData.spikeStartTime
  recoveryStartTime,  \* testData.recoveryStartTime
  createdPosts,       \* testData.createdPosts: id -> submitted payload
  verifiedPosts,      \* testData.verifiedPosts
  errorRate,          \* Rate 'errors': [pass, fail]
  spikeErrors,        \* Counter 'spike_errors'
  recoveryTime,       \* Trend 'recovery_time': the samples, in order
  dataIntegrity,      \* Rate 'data_integrity': <<id checked, 1 or 0>>, in order
  pc,                 \* where each client is in the default function
  loc,                \* each client's locals
  posts,              \* app/api/posts/route.ts: const posts (array)
  postsById,          \* app/api/posts/[id]/route.ts: const posts (Map)
  creates,            \* number of create requests issued so far
  setsThisExcursion,  \* history: times spikeStartTime was set since live
                      \* concurrency last rose above the mark
  lastUnresponsive,   \* history: Date.now() of the latest unresponsive probe
                      \* of the latest recovery, or Null
  metrics,            \* handleSummary: data.metrics of the finished run
  report,             \* handleSummary: what the summary reports
  run,                \* the life cycle of one run of a profile
  flow,               \* a load or smoke run: the clients in their iteration
                      \* and the custom metrics of the script
  testState,          \* soak.js: testState
  soakMetrics,        \* soak.js: the custom metrics
  likeCounts,         \* app/api/posts/[id]/like/route.ts: likeCounts (Map)
  viewCounts,         \* app/api/posts/[id]/view/route.ts: viewCounts (Map)
  users,              \* app/api/users/route.ts: const users (array)
  calls,              \* the like and view handlers started, in order: the
                      \* value each holds for its response, and whether it
                      \* has responded
  answer              \* the latest request a users or single-post handler
                      \* has answered, with its response

vars == <<now, stageIdx, K6_VUS, spikeStartTime, recoveryStartTime,
          createdPosts, verifiedPosts, errorRate, spikeErrors, recoveryTime,
          dataIntegrity, pc, loc, posts, postsById, creates,
          setsThisExcursion, lastUnresponsive, metrics, report, run, flow,
          testState, soakMetrics, likeCounts, viewCounts, users, calls,
          answer>>

\* the state of the like, view, and users routes and the answers of the
\* application
routeVars == <<likeCounts, viewCounts, users, calls, answer>>

\* no request has reached these routes, and the users of the target are of
\* no concern
RoutesIdle ==
  /\ likeCounts = << >>
  /\ viewCounts = << >>
  /\ users = << >>
  /\ calls = << >>
  /\ answer = << >>

\* the state of the other profiles and of the summaries, which a spike run
\* in progress does not touch
soakVars == <<testState, soakMetrics>>

profileVars == <<metrics, report, run, flow, soakVars>>

\* what a step of the spike harness leaves alone
outsideVars == <<posts, postsById, routeVars, metrics, report, run, flow,
                 soakVars>>

SoakIdle ==
  /\ testState = << >>
  /\ soakMetrics = << >>

ProfilesIdle ==
  /\ metrics = << >>
  /\ report = << >>
  /\ run = << >>
  /\ flow = << >>
  /\ SoakIdle

harnessVars == <<spikeStartTime, recoveryStartTime, createdPosts,
                 verifiedPosts, errorRate, spikeErrors, recoveryTime,
                 dataIntegrity>>
serverVars == <<posts, postsById, routeVars>>

\* the state of a spike run
spikeVars == <<now, stageIdx, K6_VUS, harnessVars, pc, loc, serverVars,
               creates, setsThisExcursion, lastUnresponsive>>

(***************************************************************************)
(* Helpers                                                                 *)
(***************************************************************************)
NoLocals ==
  [start |-> Null, randomId |-> Null, postData |-> << >>, ep |-> 0, req |-> 0]

\* Map.prototype.set
MapSet(m, k, v) == [x \in (DOMAIN m) \cup {k} |-> IF x = k THEN v ELSE m[x]]

\* the live concurrency the scheduler holds in the current stage
liveVUs == Stages[stageIdx]

\* a client exists while the scheduler's concurrency reaches its index
Active(c) == c <= liveVUs

\* const currentVUs = __ENV.K6_VUS || __VU
currentVUs(c) == IF K6_VUS # << >> THEN K6_VUS[1] ELSE c

\* the clients of the run
Clients == DOMAIN pc

InFlight(state) == Cardinality({c \in Clients : pc[c] = state})

Goto(c, state, locals) ==
  /\ pc' = [pc EXCEPT ![c] = state]
  /\ loc' = [loc EXCEPT ![c] = locals]

(***************************************************************************)
(* The target as the harness sees it: any service that honours the HTTP    *)
(* contract.  A response is [status, parses, success, hasData, data].      *)
(***************************************************************************)
NoData == [id |-> Null, title |-> << >>, content |-> Null]

Response(status, parses, success, hasData, data) ==
  [status |-> status, parses |-> parses, success |-> success,
   hasData |-> hasData, data |-> data]

\* a request that failed: no usable body
Failure(status) == Response(status, FALSE, FALSE, FALSE, NoData)

\* what a contract-abiding target may answer to POST /api/posts with
\* `body`, the n-th create request of the run: ids are unique
AnyCreateResponses(body, n) ==
  { Response(StatusCreated, TRUE, TRUE, TRUE,
             [id |-> n, title |-> body.title, content |-> body.content]),
    Response(StatusCreated, TRUE, TRUE, FALSE, NoData),
    Response(StatusCreated, FALSE, FALSE, FALSE, NoData),
    Failure(StatusBadRequest),
    Failure(StatusUnavailable) }

\* what a target may answer to GET /api/posts/{id} for a post that was
\* submitted as `original`
AnyFetchResponses(id, original) ==
  { Response(StatusOK, TRUE, TRUE, TRUE,
             [id |-> id, title |-> original.title, content |-> original.content]),
    Response(StatusOK, TRUE, TRUE, TRUE,
             [id |-> id, title |-> << >>, content |-> original.content]),
    Response(StatusOK, TRUE, FALSE, FALSE, NoData),
    Response(StatusOK, FALSE, FALSE, FALSE, NoData),
    Response(StatusNotFound, TRUE, FALSE, FALSE, NoData),
    Failure(StatusUnavailable) }

\* the statuses a GET of a listing or of /api/health may get
AnyStatuses == {StatusOK, StatusUnavailable}

(***************************************************************************)
(* spike.js: the scenarios                                                 *)
(***************************************************************************)
\* readSpike: the answer to one of the three endpoints has arrived
ReadReturn(c, status) ==
  /\ pc[c] = "read"
  /\ errorRate.pass + errorRate.fail < MaxErrObs
  /\ IF status = StatusOK
     THEN /\ errorRate' = [errorRate EXCEPT !.pass = @ + 1]
          /\ spikeErrors' = spikeErrors
     ELSE /\ errorRate' = [errorRate EXCEPT !.fail = @ + 1]
          /\ spikeErrors' = spikeErrors + 1
  /\ IF loc[c].ep < NumEndpoints
     THEN Goto(c, "read", [loc[c] EXCEPT !.ep = @ + 1])
     ELSE Goto(c, "sleep", NoLocals)
  /\ UNCHANGED <<now, stageIdx, K6_VUS, spikeStartTime, recoveryStartTime,
                 createdPosts, verifiedPosts, recoveryTime, dataIntegrity,
                 creates, setsThisExcursion, lastUnresponsive>>

\* writeSpike: the payload built before the request
PostData(r, a) == [title |-> <<now, r>>, content |-> now, authorId |-> a]

\* if (responseData.success && responseData.data)
\*   testData.createdPosts.set(responseData.data.id, postData)
Registered(res, postData) ==
  IF res.parses /\ res.success /\ res.hasData
  THEN MapSet(createdPosts, res.data.id, postData)
  ELSE createdPosts

\* writeSpike: the answer to the create request has arrived
WriteDone(c, res) ==
  /\ pc[c] = "write"
  /\ IF res.status = StatusCreated
     THEN /\ createdPosts' = Registered(res, loc[c].postData)
          /\ UNCHANGED <<errorRate, spikeErrors>>
     ELSE /\ errorRate.pass + errorRate.fail < MaxErrObs
          /\ errorRate' = [errorRate EXCEPT !.fail = @ + 1]
          /\ spikeErrors' = spikeErrors + 1
          /\ UNCHANGED createdPosts
  /\ Goto(c, "sleep", NoLocals)
  /\ UNCHANGED <<now, stageIdx, K6_VUS, spikeStartTime, recoveryStartTime,
                 verifiedPosts, recoveryTime, dataIntegrity, creates,
                 setsThisExcursion, lastUnresponsive>>

\* a slip: verifiedPosts is not consulted
SkipVerify_IgnoresVerified(id) == id \notin DOMAIN createdPosts

\* if (!originalData || testData.verifiedPosts.has(randomId)) return
SkipVerify(id) == id \notin DOMAIN createdPosts \/ id \in verifiedPosts

\* verifyDataIntegrity up to its request: returns at once, or picks an id
\* and refetches it
Verify(c) ==
  IF DOMAIN createdPosts = {}
  THEN Goto(c, "sleep", NoLocals)
  ELSE \E id \in DOMAIN createdPosts :
         IF SkipVerify(id)
         THEN Goto(c, "sleep", [NoLocals EXCEPT !.randomId = id])
         ELSE /\ Len(dataIntegrity) + InFlight("refetch") < MaxObs
              /\ Goto(c, "refetch", [NoLocals EXCEPT !.randomId = id])

\* body.data.title === originalData.title &&
\* body.data.content === originalData.content
IsValid(data, originalData) ==
  data.title = originalData.title /\ data.content = originalData.content

\* the observations verifyDataIntegrity adds for an answer
IntegrityObs(id, res) ==
  IF res.status = StatusOK
  THEN IF ~res.parses
       THEN << <<id, 0>> >>
       ELSE IF res.success /\ res.hasData
            THEN << <<id, IF IsValid(res.data, createdPosts[id]) THEN 1 ELSE 0>> >>
            ELSE << >>
  ELSE << <<id, 0>> >>

\* a slip: the id is added on any answer of status 200
Verified_OnAnyOK(id, res) ==
  IF res.status = StatusOK THEN verifiedPosts \cup {id} ELSE verifiedPosts

\* if (isValid) testData.verifiedPosts.add(randomId)
Verified(id, res) ==
  IF /\ res.status = StatusOK /\ res.parses /\ res.success /\ res.hasData
     /\ IsValid(res.data, createdPosts[id])
  THEN verifiedPosts \cup {id}
  ELSE verifiedPosts

\* verifyDataIntegrity: the answer to the refetch has arrived
RefetchDone(c, res) ==
  /\ pc[c] = "refetch"
  /\ dataIntegrity' = dataIntegrity \o IntegrityObs(loc[c].randomId, res)
  /\ verifiedPosts' = Verified(loc[c].randomId, res)
  /\ Goto(c, "sleep", NoLocals)
  /\ UNCHANGED <<now, stageIdx, K6_VUS, spikeStartTime, recoveryStartTime,
                 createdPosts, errorRate, spikeErrors, recoveryTime, creates,
                 setsThisExcursion, lastUnresponsive>>

\* measureRecovery: res.status === 200 && res.timings.duration < 500
Recovered(status, duration) == status = StatusOK /\ duration < ResponsiveMs

\* a slip: the probe's outcome is not looked at
RecoveryComplete_IgnoresProbe(recovered) ==
  now - recoveryStartTime > DwellMs

\* if (recovered && Date.now() - testData.recoveryStartTime > 5000)
RecoveryComplete(recovered) ==
  recovered /\ now - recoveryStartTime > DwellMs

\* a slip: the second of the two assignments is missing
SpikeStartAfter_Kept(complete) == spikeStartTime

\* testData.recoveryStartTime = null; testData.spikeStartTime = null;
SpikeStartAfter(complete) == IF complete THEN Null ELSE spikeStartTime

\* measureRecovery has returned to the default function
ProbeReturn(c, status) ==
  LET elapsed == now - loc[c].start
      recovered == Recovered(status, elapsed)
      complete == RecoveryComplete(recovered)
  IN /\ pc[c] = "probe"
     /\ status = StatusOK => elapsed < ProbeTimeoutMs
     /\ recovered => Len(recoveryTime) < MaxSamples
     /\ recoveryTime' = IF recovered THEN Append(recoveryTime, elapsed)
                                     ELSE recoveryTime
     /\ recoveryStartTime' = IF complete THEN Null ELSE recoveryStartTime
     /\ spikeStartTime' = SpikeStartAfter(complete)
     /\ lastUnresponsive' =
          IF ~recovered /\ recoveryStartTime # Null THEN now
                                                   ELSE lastUnresponsive
     /\ Goto(c, "normal", NoLocals)
     /\ UNCHANGED <<now, stageIdx, K6_VUS, createdPosts, verifiedPosts,
                    errorRate, spikeErrors, dataIntegrity, creates,
                    setsThisExcursion>>

\* the normal-traffic request has answered; Math.random() < 0.2 decides
\* whether verifyDataIntegrity runs
NormalReturn(c, doVerify) ==
  /\ pc[c] = "normal"
  /\ IF doVerify THEN Verify(c) ELSE Goto(c, "sleep", NoLocals)
  /\ UNCHANGED <<now, stageIdx, K6_VUS, harnessVars, creates,
                 setsThisExcursion, lastUnresponsive>>

\* sleep() is over: the iteration ends
Wake(c) ==
  /\ pc[c] = "sleep"
  /\ Goto(c, "idle", NoLocals)
  /\ UNCHANGED <<now, stageIdx, K6_VUS, harnessVars, creates,
                 setsThisExcursion, lastUnresponsive>>

\* writeSpike against any target
WriteReturn(c) ==
  /\ pc[c] = "write"
  /\ \E res \in AnyCreateResponses(loc[c].postData, loc[c].req) :
       WriteDone(c, res)

\* verifyDataIntegrity against any target
RefetchReturn(c) ==
  /\ pc[c] = "refetch"
  /\ \E res \in AnyFetchResponses(loc[c].randomId,
                                   createdPosts[loc[c].randomId]) :
       RefetchDone(c, res)

(***************************************************************************)
(* spike.js: the default function                                          *)
(***************************************************************************)
\* a slip: the guard on spikeStartTime is missing
NextSpikeStart_Overwrites == now

\* if (!testData.spikeStartTime) testData.spikeStartTime = Date.now()
NextSpikeStart == IF spikeStartTime = Null THEN now ELSE spikeStartTime

\* a slip: the guard on recoveryStartTime is missing
NextRecoveryStart_Overwrites ==
  IF spikeStartTime # Null THEN now ELSE recoveryStartTime

\* if (testData.spikeStartTime && !testData.recoveryStartTime)
\*   testData.recoveryStartTime = Date.now()
NextRecoveryStart ==
  IF spikeStartTime # Null /\ recoveryStartTime = Null
  THEN now ELSE recoveryStartTime

\* the branch taken when currentVUs > 100, up to the scenario's first
\* request; `draws` are the scenarios the run's Math.random() selects
SpikeBranch(c, draws) ==
  /\ spikeStartTime' = NextSpikeStart
  /\ setsThisExcursion' =
       IF spikeStartTime' # spikeStartTime THEN setsThisExcursion + 1
                                           ELSE setsThisExcursion
  /\ \/ /\ "read" \in draws
        /\ Goto(c, "read", [NoLocals EXCEPT !.ep = 1])
        /\ UNCHANGED creates
     \/ /\ "write" \in draws
        /\ creates < MaxCreates
        /\ creates' = creates + 1
        /\ \E r \in RandomParts, a \in AuthorIds :
             Goto(c, "write", [NoLocals EXCEPT !.postData = PostData(r, a),
                                               !.req = creates + 1])
     \/ /\ "verify" \in draws
        /\ Verify(c)
        /\ UNCHANGED creates
  /\ UNCHANGED <<recoveryStartTime, lastUnresponsive>>

\* the branch taken otherwise, up to its first request
NormalBranch(c) ==
  /\ recoveryStartTime' = NextRecoveryStart
  /\ lastUnresponsive' =
       IF recoveryStartTime' # recoveryStartTime THEN Null ELSE lastUnresponsive
  /\ IF recoveryStartTime' # Null
     THEN Goto(c, "probe", [NoLocals EXCEPT !.start = now])
     ELSE Goto(c, "normal", NoLocals)
  /\ UNCHANGED <<spikeStartTime, setsThisExcursion, creates>>

\* a client starts an iteration of the default function
Iterate(c, draws) ==
  /\ pc[c] = "idle"
  /\ Active(c)
  /\ IF currentVUs(c) > HighWaterMark THEN SpikeBranch(c, draws)
                                      ELSE NormalBranch(c)
  /\ UNCHANGED <<now, stageIdx, K6_VUS, createdPosts, verifiedPosts,
                 errorRate, spikeErrors, recoveryTime, dataIntegrity>>

(***************************************************************************)
(* The host runtime: the clock and the stage scheduler                     *)
(***************************************************************************)
\* time passes, `ticks` times at most; a recovery probe is answered or
\* times out before it has been in flight for longer than its timeout
Tick(ticks) ==
  /\ now + TickMs <= Epoch + ticks * TickMs
  /\ \A c \in Clients :
       pc[c] = "probe" => now + TickMs - loc[c].start <= ProbeTimeoutMs
  /\ now' = now + TickMs
  /\ UNCHANGED <<stageIdx, K6_VUS, harnessVars, pc, loc, creates,
                 setsThisExcursion, lastUnresponsive>>

\* the scheduler enters the next stage of options.stages
AdvanceStage ==
  /\ stageIdx < Len(Stages)
  /\ stageIdx' = stageIdx + 1
  /\ setsThisExcursion' =
       IF Stages[stageIdx] <= HighWaterMark /\ Stages[stageIdx + 1] > HighWaterMark
       THEN 0 ELSE setsThisExcursion
  /\ UNCHANGED <<now, K6_VUS, harnessVars, pc, loc, creates, lastUnresponsive>>

(***************************************************************************)
(* Spec: the spike/recovery state machine.  The run's random draws select  *)
(* verifyDataIntegrity in the spike branch; nothing was created, so the    *)
(* scenario returns at once and the data scenarios stay out of the way.    *)
(***************************************************************************)
Init ==
  /\ now = Epoch
  /\ stageIdx = 1
  /\ K6_VUS \in EnvChoices
  /\ spikeStartTime = Null
  /\ recoveryStartTime = Null
  /\ createdPosts = << >>
  /\ verifiedPosts = {}
  /\ errorRate = [pass |-> 0, fail |-> 0]
  /\ spikeErrors = 0
  /\ recoveryTime = << >>
  /\ dataIntegrity = << >>
  /\ pc = [c \in VUs |-> "idle"]
  /\ loc = [c \in VUs |-> NoLocals]
  /\ posts = << >>
  /\ postsById = << >>
  /\ RoutesIdle
  /\ creates = 0
  /\ setsThisExcursion = 0
  /\ lastUnresponsive = Null
  /\ ProfilesIdle

Next ==
  \/ Tick(MaxTicks) /\ UNCHANGED outsideVars
  \/ AdvanceStage /\ UNCHANGED outsideVars
  \/ \E c \in Clients : Iterate(c, {"verify"}) /\ UNCHANGED outsideVars
  \/ \E c \in Clients, st \in AnyStatuses : ProbeReturn(c, st) /\ UNCHANGED outsideVars
  \/ \E c \in Clients, v \in BOOLEAN : NormalReturn(c, v) /\ UNCHANGED outsideVars
  \/ \E c \in Clients : Wake(c) /\ UNCHANGED outsideVars

Spec == Init /\ [][Next]_vars

(***************************************************************************)
(* RecoverySpec: the end of a spike run.  A spike has started, the         *)
(* scheduler has reached the last stages of options.stages (target 10),    *)
(* the clients keep iterating and the health endpoint answers every probe  *)
(* with status 200 at once.  A client sleeps until the clock moves; at the *)
(* last step of the clock Date.now() stays where it is.                    *)
(***************************************************************************)
\* sleep(): the clock moves when every client that runs is asleep, and
\* the sleepers wake
SleepTick ==
  /\ \A c \in Clients : pc[c] = "sleep" \/ (pc[c] = "idle" /\ ~Active(c))
  /\ now' = IF now + TickMs <= Epoch + MaxTicks * TickMs THEN now + TickMs
                                                        ELSE now
  /\ pc' = [c \in Clients |-> "idle"]
  /\ UNCHANGED <<stageIdx, K6_VUS, harnessVars, loc, creates,
                 setsThisExcursion, lastUnresponsive>>

\* a spike has started and the scheduler has reached the ramp down to the
\* last stage, two steps of the clock before its last at the latest, which
\* leaves the dwell time to pass
RecoveryInit ==
  /\ \E i \in 0..(MaxTicks - 2), j \in 0..(MaxTicks - 2) :
       /\ j <= i
       /\ now = Epoch + i * TickMs
       /\ spikeStartTime = Epoch + j * TickMs
  /\ stageIdx = Len(Stages) - 1
  /\ K6_VUS \in {<< >>, <<300>>}
  /\ recoveryStartTime = Null
  /\ createdPosts = << >>
  /\ verifiedPosts = {}
  /\ errorRate = [pass |-> 0, fail |-> 0]
  /\ spikeErrors = 0
  /\ recoveryTime = << >>
  /\ dataIntegrity = << >>
  /\ pc = [c \in DataVUs |-> "idle"]
  /\ loc = [c \in DataVUs |-> NoLocals]
  /\ posts = << >>
  /\ postsById = << >>
  /\ RoutesIdle
  /\ creates = 0
  /\ setsThisExcursion = 1
  /\ lastUnresponsive = Null
  /\ ProfilesIdle

RecoveryNext ==
  \/ SleepTick /\ UNCHANGED outsideVars
  \/ AdvanceStage /\ UNCHANGED outsideVars
  \/ \E c \in Clients : Iterate(c, {"verify"}) /\ UNCHANGED outsideVars
  \/ \E c \in Clients : ProbeReturn(c, StatusOK) /\ UNCHANGED outsideVars
  \/ \E c \in Clients, v \in BOOLEAN : NormalReturn(c, v) /\ UNCHANGED outsideVars

\* the runtime keeps scheduling the clients and the clock
RecoverySpec ==
  RecoveryInit /\ [][RecoveryNext]_vars /\ WF_vars(RecoveryNext)

(***************************************************************************)
(* DataSpec: the data scenarios of the spike profile against any target,   *)
(* run by one client of low index and one above the mark (under K6_VUS     *)
(* = 300 both take the spike branch).  The random draws select writeSpike  *)
(* and verifyDataIntegrity; the clock stands still and the health probes   *)
(* fail, so that the recovery_time Trend stays empty while the integrity   *)
(* bookkeeping is explored.                                                *)
(***************************************************************************)
DataDraws == {"write", "verify"}

DataNext ==
  \/ AdvanceStage /\ UNCHANGED outsideVars
  \/ \E c \in Clients : Iterate(c, DataDraws) /\ UNCHANGED outsideVars
  \/ \E c \in Clients : WriteReturn(c) /\ UNCHANGED outsideVars
  \/ \E c \in Clients : RefetchReturn(c) /\ UNCHANGED outsideVars
  \/ \E c \in Clients : ProbeReturn(c, StatusUnavailable) /\ UNCHANGED outsideVars
  \/ \E c \in Clients, v \in BOOLEAN : NormalReturn(c, v) /\ UNCHANGED outsideVars
  \/ \E c \in Clients : Wake(c) /\ UNCHANGED outsideVars

DataInit ==
  /\ now = Epoch
  /\ stageIdx = 1
  /\ K6_VUS \in EnvChoices
  /\ spikeStartTime = Null
  /\ recoveryStartTime = Null
  /\ createdPosts = << >>
  /\ verifiedPosts = {}
  /\ errorRate = [pass |-> 0, fail |-> 0]
  /\ spikeErrors = 0
  /\ recoveryTime = << >>
  /\ dataIntegrity = << >>
  /\ pc = [c \in DataVUs |-> "idle"]
  /\ loc = [c \in DataVUs |-> NoLocals]
  /\ posts = << >>
  /\ postsById = << >>
  /\ RoutesIdle
  /\ creates = 0
  /\ setsThisExcursion = 0
  /\ lastUnresponsive = Null
  /\ ProfilesIdle

DataSpec == DataInit /\ [][DataNext]_vars

(***************************************************************************)
(* ErrorsSpec: readSpike and writeSpike against any target, with the       *)
(* requests of the two scenarios counted as they are answered.  The random *)
(* draws select readSpike and writeSpike; the clock stands still and the   *)
(* health probes fail.                                                     *)
(***************************************************************************)
\* the requests of readSpike and writeSpike answered so far, and those of
\* them whose check failed (http.get at spike.js:62, http.post at
\* spike.js:96)
NoRequests == [profile |-> "spike", requests |-> 0, failed |-> 0]

Answered(ok) ==
  /\ metrics' = [metrics EXCEPT !.requests = @ + 1,
                                !.failed = IF ok THEN @ ELSE @ + 1]
  /\ UNCHANGED <<posts, postsById, routeVars, report, run, flow, soakVars>>

ErrorsInit ==
  /\ now = Epoch
  /\ stageIdx = 1
  /\ K6_VUS \in EnvChoices
  /\ spikeStartTime = Null
  /\ recoveryStartTime = Null
  /\ createdPosts = << >>
  /\ verifiedPosts = {}
  /\ errorRate = [pass |-> 0, fail |-> 0]
  /\ spikeErrors = 0
  /\ recoveryTime = << >>
  /\ dataIntegrity = << >>
  /\ pc = [c \in DataVUs |-> "idle"]
  /\ loc = [c \in DataVUs |-> NoLocals]
  /\ posts = << >>
  /\ postsById = << >>
  /\ RoutesIdle
  /\ creates = 0
  /\ setsThisExcursion = 0
  /\ lastUnresponsive = Null
  /\ metrics = NoRequests
  /\ report = << >>
  /\ run = << >>
  /\ flow = << >>
  /\ SoakIdle

ErrorsNext ==
  \/ AdvanceStage /\ UNCHANGED outsideVars
  \/ \E c \in Clients : Iterate(c, {"read", "write"}) /\ UNCHANGED outsideVars
  \/ \E c \in Clients, st \in AnyStatuses :
       ReadReturn(c, st) /\ Answered(st = StatusOK)
  \/ \E c \in Clients :
       /\ pc[c] = "write"
       /\ \E res \in AnyCreateResponses(loc[c].postData, loc[c].req) :
            WriteDone(c, res) /\ Answered(res.status = StatusCreated)
  \/ \E c \in Clients : ProbeReturn(c, StatusUnavailable) /\ UNCHANGED outsideVars
  \/ \E c \in Clients : NormalReturn(c, FALSE) /\ UNCHANGED outsideVars
  \/ \E c \in Clients : Wake(c) /\ UNCHANGED outsideVars

ErrorsSpec == ErrorsInit /\ [][ErrorsNext]_vars

(***************************************************************************)
(* The posts routes of the application                                     *)
(***************************************************************************)
\* Post (types): the fields of a stored post.  `post-${n}` is the id n; a
\* title is <<0, i>> for a seed post and <<time, random>> for a submitted
\* one; the contents of the seed posts are 0 (the collection's fixed text)
\* and i (the single-post route's text for post i).
Post(id, title, content, authorId, createdAt) ==
  [id |-> id, title |-> title, content |-> content, authorId |-> authorId,
   views |-> 0, likes |-> 0, createdAt |-> createdAt, updatedAt |-> createdAt]

\* app/api/posts/route.ts: const posts = generatePosts(20); the random
\* views, likes and dates are one sample of the draws
generatePosts(count) ==
  [i \in 1..count |->
     [Post(i, <<0, i>>, 0, ((i - 1) % 5) + 1, Epoch - i)
        EXCEPT !.views = i, !.likes = i, !.updatedAt = Epoch]]

\* app/api/posts/[id]/route.ts: const posts = new Map(...)
seedPostsById ==
  [i \in 1..NumSeedPosts |->
     [Post(i, <<0, i>>, i, ((i - 1) % 5) + 1, Epoch - i)
        EXCEPT !.views = i, !.likes = i, !.updatedAt = Epoch]]

\* what the harness reads of a post in an answer
DataOf(post) == [id |-> post.id, title |-> post.title, content |-> post.content]

\* if (!body.title || !body.content || !body.authorId)
MissingFields(body) ==
  body.title = << >> \/ body.content = Null \/ body.authorId = Null

\* POST /api/posts: the post it stores, with id `post-${Date.now()}`
NewPost(body) == Post(now, body.title, body.content, body.authorId, now)

\* POST /api/posts: the answer
CollectionPOST(body) ==
  IF MissingFields(body)
  THEN Response(StatusBadRequest, TRUE, FALSE, FALSE, NoData)
  ELSE Response(StatusCreated, TRUE, TRUE, TRUE, DataOf(NewPost(body)))

\* POST /api/posts: posts.push(newPost)
CollectionAfterPOST(body) ==
  IF MissingFields(body) THEN posts ELSE Append(posts, NewPost(body))

\* GET /api/posts/{id}
SingleGET(id) ==
  IF id \in DOMAIN postsById
  THEN Response(StatusOK, TRUE, TRUE, TRUE, DataOf(postsById[id]))
  ELSE Response(StatusNotFound, TRUE, FALSE, FALSE, NoData)

\* writeSpike against the application
AppWriteReturn(c) ==
  /\ pc[c] = "write"
  /\ WriteDone(c, CollectionPOST(loc[c].postData))
  /\ posts' = CollectionAfterPOST(loc[c].postData)
  /\ UNCHANGED <<postsById, routeVars, profileVars>>

\* verifyDataIntegrity against the application
AppRefetchReturn(c) ==
  /\ pc[c] = "refetch"
  /\ RefetchDone(c, SingleGET(loc[c].randomId))
  /\ UNCHANGED outsideVars

(***************************************************************************)
(* The like, view and users routes of the application                      *)
(***************************************************************************)
\* the state of the test harness, which a route handler does not touch
harnessOnly == <<stageIdx, K6_VUS, harnessVars, pc, loc, creates,
                 setsThisExcursion, lastUnresponsive, profileVars>>

\* app/api/users/route.ts: const users = generateUsers(10); `user-${n}` is
\* the id n, `Test User ${n}` the name n, `user${n}@example.com` the e-mail
\* n; the random dates are one sample of the draws
generateUsers(count) ==
  [i \in 1..count |->
     [id |-> i, name |-> i, email |-> i, avatar |-> i, createdAt |-> Epoch - i]]

\* the module state of the routes when the server has loaded them
RoutesAtLoad ==
  /\ likeCounts = << >>
  /\ viewCounts = << >>
  /\ users = generateUsers(NumSeedUsers)
  /\ calls = << >>
  /\ answer = << >>

\* the ids the requests of a run name: two seed posts and one that no
\* store holds
RequestIds == {1, 2, NumSeedPosts + 1}

\* a slip: the stored count is not read
CurrentCount_Zero(counts, id) == 0

\* likeCounts.get(params.id) || 0
CurrentCount(counts, id) == IF id \in DOMAIN counts THEN counts[id] ELSE 0

\* a handler between its await and its response
Call(route, id, value) ==
  [route |-> route, id |-> id, value |-> value, answered |-> FALSE]

\* POST /api/posts/{id}/like up to its await: the count is read and
\* stored, and the handler keeps currentLikes + 1 for its response
LikeBegin(id) ==
  LET currentLikes == CurrentCount(likeCounts, id)
  IN  /\ Len(calls) < MaxCalls
      /\ likeCounts' = MapSet(likeCounts, id, currentLikes + 1)
      /\ calls' = Append(calls, Call("like", id, currentLikes + 1))
      /\ UNCHANGED <<viewCounts, users, answer, posts, postsById, now,
                     harnessOnly>>

\* POST /api/posts/{id}/view up to its await
ViewBegin(id) ==
  LET currentViews == CurrentCount(viewCounts, id)
  IN  /\ Len(calls) < MaxCalls
      /\ viewCounts' = MapSet(viewCounts, id, currentViews + 1)
      /\ calls' = Append(calls, Call("view", id, currentViews + 1))
      /\ UNCHANGED <<likeCounts, users, answer, posts, postsById, now,
                     harnessOnly>>

\* the delay of a like or view handler is over: it responds with
\* {success: true, data: {likes | views: value}}
CountRespond(i) ==
  /\ i \in DOMAIN calls
  /\ ~calls[i].answered
  /\ calls' = [calls EXCEPT ![i].answered = TRUE]
  /\ UNCHANGED <<likeCounts, viewCounts, users, answer, posts, postsById,
                 now, harnessOnly>>

\* the application with no run of the harness in progress
RoutesInit ==
  /\ now = Epoch
  /\ stageIdx = 1
  /\ K6_VUS = << >>
  /\ spikeStartTime = Null
  /\ recoveryStartTime = Null
  /\ createdPosts = << >>
  /\ verifiedPosts = {}
  /\ errorRate = [pass |-> 0, fail |-> 0]
  /\ spikeErrors = 0
  /\ recoveryTime = << >>
  /\ dataIntegrity = << >>
  /\ pc = << >>
  /\ loc = << >>
  /\ posts = generatePosts(NumSeedPosts)
  /\ postsById = seedPostsById
  /\ RoutesAtLoad
  /\ creates = 0
  /\ setsThisExcursion = 0
  /\ lastUnresponsive = Null
  /\ ProfilesIdle

(***************************************************************************)
(* CountsSpec: like and view requests for the ids, in any interleaving of  *)
(* the handlers' steps                                                     *)
(***************************************************************************)
CountsNext ==
  \/ \E id \in RequestIds : LikeBegin(id)
  \/ \E id \in RequestIds : ViewBegin(id)
  \/ \E i \in 1..MaxCalls : CountRespond(i)

CountsSpec == RoutesInit /\ [][CountsNext]_vars

(***************************************************************************)
(* UsersSpec: POST /api/users requests, one after another.  The handler    *)
(* awaits the body and runs to its response without another await, so a    *)
(* request takes effect in one step.                                       *)
(***************************************************************************)
\* the bodies of the requests: one that JSON cannot parse, the JSON null,
\* and objects with or without a name and an e-mail, of a seed user or new
UserBodies ==
  [kind : {"unparseable", "null"}, name : {Null}, email : {Null},
   avatar : {Null}]
  \cup [kind : {"object"}, name : {Null, 1, 2},
        email : {Null, 1, NumSeedUsers + 1, NumSeedUsers + 2},
        avatar : {Null}]

\* the request a handler has answered, and its response
Answer(route, method, id, body, status, error) ==
  [route |-> route, method |-> method, id |-> id, body |-> body,
   status |-> status, success |-> error = << >>, error |-> error]

\* await request.json() and body.name throw: the catch answers
Rejected(body) == body.kind # "object"

\* a slip: the e-mail is not looked up
EmailTaken_Never(email) == FALSE

\* users.some(u => u.email === body.email)
EmailTaken(email) == \E i \in DOMAIN users : users[i].email = email

\* const newUser = {id: `user-${Date.now()}`, ...}
NewUser(body) ==
  [id |-> now, name |-> body.name, email |-> body.email,
   avatar |-> IF body.avatar # Null THEN body.avatar ELSE now,
   createdAt |-> now]

\* POST /api/users
UsersPOST(body) ==
  LET Reply(status, error) ==
        answer' = Answer("users", "POST", Null, body, status, error)
  IN  /\ IF Rejected(body)
         THEN Reply(StatusBadRequest, <<"Invalid request body">>)
              /\ UNCHANGED users
         ELSE IF body.name = Null \/ body.email = Null
         THEN Reply(StatusBadRequest, <<"Missing required fields">>)
              /\ UNCHANGED users
         ELSE IF EmailTaken(body.email)
         THEN Reply(StatusConflict, <<"Email already exists">>)
              /\ UNCHANGED users
         ELSE Reply(StatusCreated, << >>)
              /\ users' = Append(users, NewUser(body))
      /\ UNCHANGED <<likeCounts, viewCounts, calls, posts, postsById, now,
                     harnessOnly>>

UsersNext == \E body \in UserBodies : UsersPOST(body)

UsersSpec == RoutesInit /\ [][UsersNext]_vars

(***************************************************************************)
(* PostSpec: GET, PUT and DELETE requests on /api/posts/{id}, one after    *)
(* another, while the clock advances.  GET reads the store after its       *)
(* delay, PUT after it has awaited the body, DELETE at once: each takes    *)
(* effect in one step.                                                     *)
(***************************************************************************)
\* the bodies of the PUT requests: one that JSON cannot parse, the JSON
\* null, and objects with or without a title and a content
PutBodies ==
  [kind : {"unparseable", "null"}, title : {<< >>}, content : {Null}]
  \cup [kind : {"object"}, title : {<< >>, <<1, 1>>}, content : {Null, 7}]

\* a request without a body
NoBody == [kind |-> "none"]

\* a slip: the counters are reset with the update
Updated_ResetsViews(post, body) ==
  [post EXCEPT !.title = IF body.title # << >> THEN body.title ELSE @,
               !.content = IF body.content # Null THEN body.content ELSE @,
               !.views = 0,
               !.updatedAt = now]

\* const updatedPost = {...post, title: body.title || post.title,
\*   content: body.content || post.content, updatedAt: new Date()}
Updated(post, body) ==
  [post EXCEPT !.title = IF body.title # << >> THEN body.title ELSE @,
               !.content = IF body.content # Null THEN body.content ELSE @,
               !.updatedAt = now]

\* Map.prototype.delete
MapDelete(m, k) == [x \in (DOMAIN m) \ {k} |-> m[x]]

PostUnchanged ==
  UNCHANGED <<likeCounts, viewCounts, users, calls, posts, now, harnessOnly>>

\* GET /api/posts/{id}, from the end of its delay
PostGET(id) ==
  /\ answer' = Answer("post", "GET", id, NoBody, SingleGET(id).status,
                      IF id \in DOMAIN postsById THEN << >>
                                                 ELSE <<"Post not found">>)
  /\ UNCHANGED postsById
  /\ PostUnchanged

\* PUT /api/posts/{id}
PostPUT(id, body) ==
  LET Reply(status, error) ==
        answer' = Answer("post", "PUT", id, body, status, error)
  IN  /\ IF body.kind = "unparseable"
         THEN Reply(StatusBadRequest, <<"Invalid request body">>)
              /\ UNCHANGED postsById
         ELSE IF id \notin DOMAIN postsById
         THEN Reply(StatusNotFound, <<"Post not found">>)
              /\ UNCHANGED postsById
         ELSE IF Rejected(body)
         THEN Reply(StatusBadRequest, <<"Invalid request body">>)
              /\ UNCHANGED postsById
         ELSE Reply(StatusOK, << >>)
              /\ postsById' =
                   [postsById EXCEPT ![id] = Updated(postsById[id], body)]
      /\ PostUnchanged

\* DELETE /api/posts/{id}
PostDELETE(id) ==
  /\ IF id \in DOMAIN postsById
     THEN /\ postsById' = MapDelete(postsById, id)
          /\ answer' = Answer("post", "DELETE", id, NoBody, StatusOK, << >>)
     ELSE /\ UNCHANGED postsById
          /\ answer' = Answer("post", "DELETE", id, NoBody, StatusNotFound,
                              <<"Post not found">>)
  /\ PostUnchanged

\* time passes between two requests
PostTick ==
  /\ now + TickMs <= Epoch + AppTicks * TickMs
  /\ now' = now + TickMs
  /\ UNCHANGED <<posts, postsById, routeVars, harnessOnly>>

PostNext ==
  \/ PostTick
  \/ \E id \in RequestIds : PostGET(id)
  \/ \E id \in RequestIds, body \in PutBodies : PostPUT(id, body)
  \/ \E id \in RequestIds : PostDELETE(id)

PostSpec == RoutesInit /\ [][PostNext]_vars

(***************************************************************************)
(* AppSpec: the data scenarios of the spike profile against the            *)
(* application's own routes                                                *)
(***************************************************************************)
AppInit ==
  /\ now = Epoch
  /\ stageIdx = 1
  /\ K6_VUS \in EnvChoices
  /\ spikeStartTime = Null
  /\ recoveryStartTime = Null
  /\ createdPosts = << >>
  /\ verifiedPosts = {}
  /\ errorRate = [pass |-> 0, fail |-> 0]
  /\ spikeErrors = 0
  /\ recoveryTime = << >>
  /\ dataIntegrity = << >>
  /\ pc = [c \in DataVUs |-> "idle"]
  /\ loc = [c \in DataVUs |-> NoLocals]
  /\ posts = generatePosts(NumSeedPosts)
  /\ postsById = seedPostsById
  /\ RoutesAtLoad
  /\ creates = 0
  /\ setsThisExcursion = 0
  /\ lastUnresponsive = Null
  /\ ProfilesIdle

AppNext ==
  \/ Tick(AppTicks) /\ UNCHANGED outsideVars
  \/ AdvanceStage /\ UNCHANGED outsideVars
  \/ \E c \in Clients : Iterate(c, DataDraws) /\ UNCHANGED outsideVars
  \/ \E c \in Clients : AppWriteReturn(c)
  \/ \E c \in Clients : AppRefetchReturn(c)
  \/ \E c \in Clients : ProbeReturn(c, StatusUnavailable) /\ UNCHANGED outsideVars
  \/ \E c \in Clients, v \in BOOLEAN : NormalReturn(c, v) /\ UNCHANGED outsideVars
  \/ \E c \in Clients : Wake(c) /\ UNCHANGED outsideVars

AppSpec == AppInit /\ [][AppNext]_vars

(***************************************************************************)
(* The end-of-run summaries.  A Rate is a percentage, a latency is in ms;  *)
(* a metric that received no sample is absent from data.metrics: << >>,    *)
(* and <<v>> when present.                                                 *)
(***************************************************************************)
\* no spike run is in progress
SpikeIdle ==
  /\ now = Epoch
  /\ stageIdx = 1
  /\ K6_VUS = << >>
  /\ spikeStartTime = Null
  /\ recoveryStartTime = Null
  /\ createdPosts = << >>
  /\ verifiedPosts = {}
  /\ errorRate = [pass |-> 0, fail |-> 0]
  /\ spikeErrors = 0
  /\ recoveryTime = << >>
  /\ dataIntegrity = << >>
  /\ pc = << >>
  /\ loc = << >>
  /\ posts = << >>
  /\ postsById = << >>
  /\ RoutesIdle
  /\ creates = 0
  /\ setsThisExcursion = 0
  /\ lastUnresponsive = Null

\* metrics.x?.values.y || d
OrElse(opt, d) == IF opt = << >> \/ opt[1] = 0 THEN d ELSE opt[1]

\* metrics.x?.values.y > limit (undefined > limit is false)
Exceeds(opt, limit) == opt # << >> /\ opt[1] > limit

\* stress.js handleSummary: systemStatus
StressStatus_LatencyFirst(m) ==
  IF m.p95 > 5000 THEN "SLOW"
  ELSE IF m.p99 > 10000 THEN "WARNING"
  ELSE IF m.failed > 50 THEN "CRITICAL"
  ELSE IF m.failed > 30 THEN "DEGRADED"
  ELSE "HEALTHY"

StressStatus(m) ==
  IF m.failed > 50 THEN "CRITICAL"
  ELSE IF m.failed > 30 THEN "DEGRADED"
  ELSE IF m.p95 > 5000 THEN "SLOW"
  ELSE IF m.p99 > 10000 THEN "WARNING"
  ELSE "HEALTHY"

\* stress.js generateRecommendations: the lines it returns
FailureAdvice ==
  <<"Implement circuit breakers to handle failures gracefully",
    "Add retry logic with exponential backoff",
    "Scale horizontally to distribute load">>

LatencyAdvice ==
  <<"Optimize database queries and add indexes",
    "Implement caching layer (Redis/Memcached)",
    "Consider database read replicas">>

OverloadAdvice ==
  <<"Implement rate limiting to prevent overload",
    "Add autoscaling based on CPU/memory metrics",
    "Review and optimize resource-intensive operations">>

SlowRequestAdvice ==
  <<"Analyze slow query logs",
    "Implement request timeout handling",
    "Consider async processing for heavy operations">>

StressNoAction ==
  <<"System performed well under stress",
    "Consider current configuration adequate">>

When(cond, lines) == IF cond THEN lines ELSE << >>

generateRecommendations_ByStatus(m, status) ==
  LET recommendations ==
        When(status = "DEGRADED", FailureAdvice)
        \o When(m.p95 > 3000, LatencyAdvice)
        \o When(status \in {"CRITICAL", "DEGRADED"}, OverloadAdvice)
        \o When(Exceeds(m.slow, 100), SlowRequestAdvice)
  IN  IF Len(recommendations) > 0 THEN recommendations ELSE StressNoAction

generateRecommendations(m, status) ==
  LET recommendations ==
        When(m.failed > 10, FailureAdvice)
        \o When(m.p95 > 3000, LatencyAdvice)
        \o When(status \in {"CRITICAL", "DEGRADED"}, OverloadAdvice)
        \o When(Exceeds(m.slow, 100), SlowRequestAdvice)
  IN  IF Len(recommendations) > 0 THEN recommendations ELSE StressNoAction

\* the figures a stress run can end with: p95 <= p99
StressInputs ==
  {m \in
     {[profile |-> "stress", failed |-> f, p95 |-> a, p99 |-> b, slow |-> s] :
        f \in {0, 10, 11, 30, 31, 50, 51, 100},
        a \in {0, 3000, 3001, 5000, 5001},
        b \in {0, 5001, 10000, 10001},
        s \in {<< >>, <<100>>, <<101>>}} :
     m.p95 <= m.p99}

\* stress.js handleSummary
StressSummary ==
  /\ metrics # << >> /\ metrics.profile = "stress"
  /\ report = << >>
  /\ report' = [status |-> StressStatus(metrics),
                recommendations |->
                  generateRecommendations(metrics, StressStatus(metrics))]
  /\ UNCHANGED <<metrics, run, flow, spikeVars, soakVars>>

\* spike.js generateSpikeRecommendations: the lines it returns
BurstAdvice ==
  <<"Implement request queuing to handle bursts",
    "Add connection pooling and rate limiting",
    "Configure auto-scaling with aggressive policies">>

RecoveryAdvice ==
  <<"Optimize recovery mechanisms",
    "Implement health check based routing",
    "Add circuit breakers for faster recovery">>

IntegrityAdvice ==
  <<"Review transaction handling during high load",
    "Implement database connection retry logic",
    "Add data validation layers">>

TimeoutAdvice ==
  <<"Implement request timeout handling",
    "Add caching layers to reduce load",
    "Optimize database queries and indexes">>

SpikeNoAction ==
  <<"System performs well under spike conditions",
    "Consider current configuration adequate",
    "Monitor for edge cases in production">>

generateSpikeRecommendations(m, errors, avgRecovery, integrityRate) ==
  LET recommendations ==
        When(errors > 100, BurstAdvice)
        \o When(avgRecovery > DwellMs, RecoveryAdvice)
        \o When(integrityRate < 99, IntegrityAdvice)
        \o When(m.p99 > 10000, TimeoutAdvice)
  IN  IF Len(recommendations) = 0 THEN SpikeNoAction ELSE recommendations

\* spike.js analyzeSystemBehavior: the lines it returns
analyzeSystemBehavior(m, errors, integrityRate) ==
  (IF m.failed < 10 /\ errors < 50
   THEN <<"System handled spikes excellently",
          "Minimal errors during traffic surges">>
   ELSE IF m.failed < 30
   THEN <<"System showed some degradation during spikes",
          "Moderate error rate increase observed">>
   ELSE <<"System struggled significantly during spikes",
          "High error rate indicates capacity issues">>)
  \o (IF integrityRate > 99 THEN <<"Perfect data integrity maintained">>
      ELSE IF integrityRate > 95 THEN <<"Good data integrity (>95%)">>
      ELSE <<"Data integrity concerns detected">>)
  \o (IF m.p95 < 2000 THEN <<"Response times remained acceptable">>
      ELSE IF m.p95 < 5000 THEN <<"Response times degraded but recoverable">>
      ELSE <<"Severe response time degradation">>)

\* the figures a spike run can end with; a sample of recovery_time is the
\* latency of a responsive probe, under 500 ms
SpikeInputs ==
  {m \in
     {[profile |-> "spike", failed |-> f, p95 |-> a, p99 |-> b,
       spike_errors |-> e, recovery_time |-> r, data_integrity |-> i] :
        f \in {0, 10, 30},
        a \in {0, 2000, 5000},
        b \in {5000, 10000, 10001},
        e \in {<< >>, <<50>>, <<101>>},
        r \in {<< >>, <<ResponsiveMs - 1>>},
        i \in {<< >>, <<0>>, <<96>>, <<100>>}} :
     m.p95 <= m.p99}

\* spike.js handleSummary
SpikeSummary ==
  /\ metrics # << >> /\ metrics.profile = "spike"
  /\ report = << >>
  /\ LET totalErrors == OrElse(metrics.spike_errors, 0)
         avgRecoveryTime == OrElse(metrics.recovery_time, 0)
         integrityRate == OrElse(metrics.data_integrity, 100)
     IN  report' =
           [analysis |->
              analyzeSystemBehavior(metrics, totalErrors, integrityRate),
            recommendations |->
              generateSpikeRecommendations(metrics, totalErrors,
                                           avgRecoveryTime, integrityRate)]
  /\ UNCHANGED <<metrics, run, flow, spikeVars, soakVars>>

\* soak.js: (memoryGrowth / duration) * 60, kept as the fraction
\* <<numerator, denominator>>; MB and minutes are whole numbers here
PerHour(memoryGrowth, duration) == <<memoryGrowth * 60, duration>>

Below(q, limit) == q[1] < limit * q[2]
Above(q, limit) == q[1] > limit * q[2]

\* soak.js assessStability: the memory line
MemoryVerdict(memoryGrowthPerHour) ==
  IF Below(memoryGrowthPerHour, 10)
  THEN "Memory usage stable (< 10MB/hour growth)"
  ELSE IF Below(memoryGrowthPerHour, 50)
  THEN "Moderate memory growth detected (10-50MB/hour)"
  ELSE "Significant memory growth (> 50MB/hour) - possible leak"

\* soak.js assessStability: the lines it returns
assessStability(m, memoryGrowth, degradationRate, duration) ==
  LET memoryGrowthPerHour == PerHour(memoryGrowth, duration)
  IN  <<MemoryVerdict(memoryGrowthPerHour),
        IF degradationRate < 5 THEN "Performance remained consistent"
        ELSE IF degradationRate < 15
        THEN "Some performance degradation observed"
        ELSE "Significant performance degradation over time",
        IF m.failed < 1 THEN "Very low error rate maintained"
        ELSE IF m.failed < 5 THEN "Acceptable error rate"
        ELSE "Higher than expected error rate",
        IF /\ Below(memoryGrowthPerHour, 10)
           /\ degradationRate < 5
           /\ m.failed < 1
        THEN "EXCELLENT: System is production-ready for long-term operation"
        ELSE IF /\ Below(memoryGrowthPerHour, 50)
                /\ degradationRate < 15
                /\ m.failed < 5
        THEN "GOOD: System is stable but needs monitoring"
        ELSE "ATTENTION NEEDED: System shows signs of instability">>

\* soak.js generateSoakRecommendations: the lines it returns
MemoryAdvice ==
  <<"Investigate memory leaks in application code",
    "Review database connection pooling",
    "Check for unreleased resources or event listeners",
    "Implement periodic garbage collection">>

DegradationAdvice ==
  <<"Review database query performance over time",
    "Check for index fragmentation",
    "Monitor cache effectiveness",
    "Consider implementing connection pooling limits">>

LeakAdvice ==
  <<"Add resource cleanup in error handlers",
    "Implement request timeout handling",
    "Review third-party library usage",
    "Add monitoring for resource usage patterns">>

SlowEndpointAdvice ==
  <<"Identify and optimize slow endpoints",
    "Consider implementing request queuing",
    "Add response caching for frequently accessed data">>

SoakNoAction ==
  <<"System shows excellent long-term stability",
    "Continue monitoring in production",
    "Consider increasing load for next test iteration">>

generateSoakRecommendations(m, memoryGrowth, degradationRate, leaks, duration) ==
  LET recommendations ==
        When(Above(PerHour(memoryGrowth, duration), 10), MemoryAdvice)
        \o When(degradationRate > 10, DegradationAdvice)
        \o When(leaks > 10, LeakAdvice)
        \o When(m.p99 > 5000, SlowEndpointAdvice)
  IN  IF Len(recommendations) = 0 THEN SoakNoAction ELSE recommendations

\* the figures a soak run can end with: the memory samples lie between
\* min and max, the run lasted `minutes`
SoakInputs ==
  {[profile |-> "soak", failed |-> f, p99 |-> b, minutes |-> d,
    memory_min |-> mem[1], memory_max |-> mem[2],
    performance_degradation |-> g, potential_leaks |-> l] :
     f \in {0, 1, 5},
     b \in {5000, 5001},
     d \in {60, 135},
     mem \in {<< << >>, << >> >>} \cup
             {<< <<100>>, <<100 + x>> >> : x \in {0, 9, 10, 11, 49, 50, 60, 120}},
     g \in {<< >>, <<4>>, <<10>>, <<11>>, <<15>>},
     l \in {<< >>, <<10>>, <<11>>}}

\* soak.js handleSummary
SoakSummary ==
  /\ metrics # << >> /\ metrics.profile = "soak"
  /\ report = << >>
  /\ LET testDuration == metrics.minutes
         maxMemory == OrElse(metrics.memory_max, 0)
         minMemory == OrElse(metrics.memory_min, 0)
         memoryGrowth == maxMemory - minMemory
         performanceDegradationRate ==
           OrElse(metrics.performance_degradation, 0)
         potentialLeaks == OrElse(metrics.potential_leaks, 0)
     IN  report' =
           [stability |->
              assessStability(metrics, memoryGrowth,
                              performanceDegradationRate, testDuration),
            recommendations |->
              generateSoakRecommendations(metrics, memoryGrowth,
                                          performanceDegradationRate,
                                          potentialLeaks, testDuration)]
  /\ UNCHANGED <<metrics, run, flow, spikeVars, soakVars>>

\* smoke options.thresholds: p(95)<500, http_req_failed rate<0.01,
\* errors rate<0.01
SmokeThresholds(m) == m.p95 < 500 /\ m.failed < 1 /\ m.errors < 1

\* load options.thresholds: p(95)<1000, p(99)<2000, http_req_failed
\* rate<0.05, errors rate<0.05, api_duration p(95)<800
LoadThresholds(m) ==
  /\ m.p95 < 1000 /\ m.p99 < 2000
  /\ m.failed < 5 /\ m.errors < 5
  /\ m.api_p95 < 800

\* smoke textSummary: the last line
SmokeVerdict(m) == IF m.failed < 1 THEN "PASSED" ELSE "FAILED"

\* load textSummary: Test Result
LoadVerdict(m) == IF m.failed < 5 THEN "PASSED" ELSE "FAILED"

SmokeInputs ==
  {[profile |-> "smoke", failed |-> f, errors |-> e, p95 |-> a] :
     f \in {0, 1}, e \in {0, 1}, a \in {499, 500}}

LoadInputs ==
  {m \in
     {[profile |-> "load", failed |-> f, errors |-> e, p95 |-> a, p99 |-> b,
       api_p95 |-> api] :
        f \in {0, 4, 5}, e \in {0, 5}, a \in {999, 1000},
        b \in {1999, 2000}, api \in {799, 800}} :
     m.p95 <= m.p99}

\* smoke handleSummary
SmokeSummary ==
  /\ metrics # << >> /\ metrics.profile = "smoke"
  /\ report = << >>
  /\ report' = [verdict |-> SmokeVerdict(metrics)]
  /\ UNCHANGED <<metrics, run, flow, spikeVars, soakVars>>

\* load handleSummary
LoadSummary ==
  /\ metrics # << >> /\ metrics.profile = "load"
  /\ report = << >>
  /\ report' = [verdict |-> LoadVerdict(metrics)]
  /\ UNCHANGED <<metrics, run, flow, spikeVars, soakVars>>

SummaryInputs ==
  StressInputs \cup SpikeInputs \cup SoakInputs \cup SmokeInputs \cup LoadInputs

SummaryInit ==
  /\ SpikeIdle
  /\ SoakIdle
  /\ metrics \in SummaryInputs
  /\ report = << >>
  /\ run = << >>
  /\ flow = << >>

SummaryNext ==
  \/ StressSummary
  \/ SpikeSummary
  \/ SoakSummary
  \/ SmokeSummary
  \/ LoadSummary

SummarySpec == SummaryInit /\ [][SummaryNext]_vars

(***************************************************************************)
(* The life cycle of a run: the launcher, setup(), the clients' iterations *)
(***************************************************************************)
Profiles == {"smoke", "load", "stress", "spike", "soak"}

\* a run is started by k6 run <script> or through run-tests.sh
Launchers == {"k6", "run-tests.sh"}

\* the scripts that export a setup() with the health check
HasSetup(profile) == profile \in {"load", "spike", "soak"}

LifeCycleVUs == {1, 2}

\* run-tests.sh check_server: exit 1 unless the health endpoint answers 200
Launch ==
  /\ run.phase = "launch"
  /\ run' = [run EXCEPT !.phase =
               IF run.launcher = "run-tests.sh" /\ run.health # StatusOK
               THEN "aborted" ELSE "setup"]
  /\ UNCHANGED <<metrics, report, flow, spikeVars, soakVars>>

\* setup(): throw unless the health endpoint answers 200; a run whose
\* setup throws is aborted by the runtime, a script without setup starts
Setup ==
  /\ run.phase = "setup"
  /\ run' = [run EXCEPT !.phase =
               IF HasSetup(run.profile) /\ run.health # StatusOK
               THEN "aborted" ELSE "running"]
  /\ UNCHANGED <<metrics, report, flow, spikeVars, soakVars>>

\* a client runs the default function once
RunIteration(c) ==
  /\ run.phase = "running"
  /\ run.iterations[c] < MaxIterations
  /\ run' = [run EXCEPT !.iterations[c] = @ + 1]
  /\ UNCHANGED <<metrics, report, flow, spikeVars, soakVars>>

\* the stages are over
EndRun ==
  /\ run.phase = "running"
  /\ run' = [run EXCEPT !.phase = "done"]
  /\ UNCHANGED <<metrics, report, flow, spikeVars, soakVars>>

LifeCycleInit ==
  /\ SpikeIdle
  /\ SoakIdle
  /\ metrics = << >>
  /\ report = << >>
  /\ flow = << >>
  /\ run \in [profile : Profiles, launcher : Launchers, health : AnyStatuses,
               phase : {"launch"}, iterations : {[c \in LifeCycleVUs |-> 0]}]

LifeCycleNext ==
  \/ Launch
  \/ Setup
  \/ \E c \in LifeCycleVUs : RunIteration(c)
  \/ EndRun

LifeCycleSpec == LifeCycleInit /\ [][LifeCycleNext]_vars

(***************************************************************************)
(* The iterations of the load and smoke profiles.  Of an answer the        *)
(* scripts read the status and the body: "envelope" is an object with the  *)
(* success field and a non-empty data array, "object" any other JSON       *)
(* object, "null" the JSON null (also the body of a request that got no    *)
(* answer), "text" a body that is not JSON.                                *)
(***************************************************************************)
Bodies == {"envelope", "object", "null", "text"}

AnyAnswers == [status : AnyStatuses, body : Bodies]

\* const body = JSON.parse(r.body); body.success ...: JSON.parse throws a
\* SyntaxError for text, reading a property of null throws a TypeError
Throws(body) == body \in {"text", "null"}

\* the iteration of client c ends: by returning, or by an exception that
\* leaves the default function (the runtime logs it and starts the next
\* iteration)
EndIteration(c, thrown) ==
  [flow EXCEPT !.pc[c] = "idle", !.k[c] = 0, !.iterations[c] = @ + 1,
               !.thrown = @ + (IF thrown THEN 1 ELSE 0)]

FlowStep(next) ==
  /\ flow' = next
  /\ UNCHANGED <<metrics, report, run, spikeVars, soakVars>>

At(c, profile, state) ==
  flow.profile = profile /\ c \in DOMAIN flow.pc /\ flow.pc[c] = state

\* load.js default: scenario.browseWebsite() requests the main page
LoadBegin(c) ==
  /\ At(c, "load", "idle")
  /\ flow.iterations[c] < MaxIterations
  /\ FlowStep([flow EXCEPT !.pc[c] = "main"])

\* browseWebsite: the main page answers; the posts list is requested
LoadMainReturn(c) ==
  /\ At(c, "load", "main")
  /\ FlowStep([flow EXCEPT !.pc[c] = "posts"])

\* browseWebsite: the posts list answers, check() runs 'Posts has data',
\* apiDuration.add; default then picks a post when the list has one
LoadPostsReturn(c, res) ==
  /\ At(c, "load", "posts")
  /\ FlowStep(
       IF Throws(res.body) THEN EndIteration(c, TRUE)
       ELSE [flow EXCEPT !.apiDuration = @ + 1,
                         !.pc[c] = IF res.status = StatusOK /\ res.body = "envelope"
                                   THEN "detail" ELSE "users"])

\* interactWithPost: detail, view and like requests; apiDuration.add
LoadDetailReturn(c) ==
  /\ At(c, "load", "detail")
  /\ FlowStep([flow EXCEPT !.apiDuration = @ + 1, !.pc[c] = "users"])

\* browseUsers: the users list answers, check() runs 'Users has data',
\* apiDuration.add; createPost requests a post in one call of ten
LoadUsersReturn(c, res, create) ==
  /\ At(c, "load", "users")
  /\ FlowStep(
       IF Throws(res.body) THEN EndIteration(c, TRUE)
       ELSE IF create
       THEN [flow EXCEPT !.apiDuration = @ + 1, !.pc[c] = "create"]
       ELSE [EndIteration(c, FALSE) EXCEPT !.apiDuration = @ + 1])

\* createPost: the create request answers; apiDuration.add
LoadCreateReturn(c) ==
  /\ At(c, "load", "create")
  /\ FlowStep([EndIteration(c, FALSE) EXCEPT !.apiDuration = @ + 1])

\* smoke default: the health check is requested
SmokeBegin(c) ==
  /\ At(c, "smoke", "idle")
  /\ flow.iterations[c] < MaxIterations
  /\ FlowStep([flow EXCEPT !.pc[c] = "health"])

\* smoke default: the health check answers, check() runs 'Health check has
\* status'; the main page is requested
SmokeHealthReturn(c, res) ==
  /\ At(c, "smoke", "health")
  /\ FlowStep(IF Throws(res.body) THEN EndIteration(c, TRUE)
              ELSE [flow EXCEPT !.pc[c] = "main"])

\* smoke default: the main page answers; makeRequest for the posts API
SmokeMainReturn(c) ==
  /\ At(c, "smoke", "main")
  /\ FlowStep([flow EXCEPT !.pc[c] = "request", !.k[c] = 1])

\* makeRequest: the answer is checked inside try/catch; errorRate.add(!success)
SmokeRequestReturn(c, res) ==
  /\ At(c, "smoke", "request")
  /\ LET success == res.status = StatusOK /\ res.body = "envelope"
         counted == [flow EXCEPT !.errors =
                       IF success THEN [@ EXCEPT !.pass = @ + 1]
                       ELSE [@ EXCEPT !.fail = @ + 1]]
     IN  FlowStep(IF flow.k[c] < 3
                  THEN [counted EXCEPT !.k[c] = @ + 1]
                  ELSE [counted EXCEPT !.pc[c] = "view"])

\* smoke default: the view request answers; the iteration is over
SmokeViewReturn(c) ==
  /\ At(c, "smoke", "view")
  /\ FlowStep(EndIteration(c, FALSE))

NewFlow(profile, clients) ==
  [profile |-> profile,
   pc |-> [c \in clients |-> "idle"],
   k |-> [c \in clients |-> 0],
   iterations |-> [c \in clients |-> 0],
   apiDuration |-> 0,
   errors |-> [pass |-> 0, fail |-> 0],
   thrown |-> 0]

FlowInit ==
  /\ SpikeIdle
  /\ SoakIdle
  /\ metrics = << >>
  /\ report = << >>
  /\ run = << >>
  /\ flow \in {NewFlow("load", {1, 2}), NewFlow("smoke", {1})}

FlowNext ==
  \/ \E c \in DOMAIN flow.pc : LoadBegin(c)
  \/ \E c \in DOMAIN flow.pc : LoadMainReturn(c)
  \/ \E c \in DOMAIN flow.pc, res \in AnyAnswers : LoadPostsReturn(c, res)
  \/ \E c \in DOMAIN flow.pc : LoadDetailReturn(c)
  \/ \E c \in DOMAIN flow.pc, res \in AnyAnswers, create \in BOOLEAN :
       LoadUsersReturn(c, res, create)
  \/ \E c \in DOMAIN flow.pc : LoadCreateReturn(c)
  \/ \E c \in DOMAIN flow.pc : SmokeBegin(c)
  \/ \E c \in DOMAIN flow.pc, res \in AnyAnswers : SmokeHealthReturn(c, res)
  \/ \E c \in DOMAIN flow.pc : SmokeMainReturn(c)
  \/ \E c \in DOMAIN flow.pc, res \in AnyAnswers : SmokeRequestReturn(c, res)
  \/ \E c \in DOMAIN flow.pc : SmokeViewReturn(c)

FlowSpec == FlowInit /\ [][FlowNext]_vars

(***************************************************************************)
(* The soak profile: the monitoring iterations (__ITER % 10 === 0) of the  *)
(* default function, monitorSystemHealth and trackPerformanceDegradation.  *)
(* Memory figures are whole MB.                                            *)
(***************************************************************************)
SoakVUs == {1, 2}

MinuteMs == 60000

\* time between two monitoring iterations, and the latency of a request
PauseMs == 5 * MinuteMs
LatencyMs == 100

\* const testState = {...}, after setup()
NewTestState ==
  [startTime |-> Epoch,
   initialMetrics |-> [responseTime |-> Null, errorRate |-> Null,
                       memoryUsage |-> Null],
   checkpoints |-> << >>,
   resourceMonitor |-> [openConnections |-> {}, activeRequests |-> << >>,
                        dataCache |-> << >>]]

\* memory_usage (a Trend) is kept as its number of samples, current_memory
\* (a Gauge) as its last value
NewSoakMetrics ==
  [memory_usage |-> 0, current_memory |-> << >>,
   performance_degradation |-> [pass |-> 0, fail |-> 0],
   potential_leaks |-> 0]

\* the answers of the health endpoint: a status, a body that parses or
\* not, and health.memory.heapUsed in MB when the body carries it
HealthAnswers ==
  [status : AnyStatuses, parses : BOOLEAN, memory : {<< >>, <<100>>, <<105>>}]

SoakUnchanged ==
  UNCHANGED <<stageIdx, K6_VUS, harnessVars, serverVars, creates,
              setsThisExcursion, lastUnresponsive, metrics, report, run, flow>>

elapsed == now - testState.startTime

\* the clock of a soak run
SoakTick(d) ==
  /\ d = PauseMs => elapsed \div PauseMs < MaxPauses
  /\ d = LatencyMs => (elapsed % PauseMs) \div LatencyMs < MaxLatencies
  /\ now' = now + d
  /\ UNCHANGED <<pc, loc, soakVars>>
  /\ SoakUnchanged

\* if (!testState.initialMetrics.x) testState.initialMetrics.x = value
FirstWriterWins(baseline, value) == IF baseline = Null THEN value ELSE baseline

\* if (increasePerMinute > 1), with increasePerMinute = memoryIncrease /
\* runTime and runTime in minutes: the division by a runTime of 0 gives
\* Infinity, -Infinity or NaN and the same verdict as the product
LeakSuspected_AtThreshold(memoryIncrease, runTimeMs) ==
  memoryIncrease * MinuteMs >= runTimeMs

LeakSuspected(memoryIncrease, runTimeMs) ==
  memoryIncrease * MinuteMs > runTimeMs

\* the monitoring iterations the run has begun
MonitoringIterations ==
  soakMetrics.performance_degradation.pass
    + soakMetrics.performance_degradation.fail
    + Cardinality({c \in SoakVUs : pc[c] = "perf"})

\* a monitoring iteration of default: monitorSystemHealth with the answer
\* of its health request, then trackPerformanceDegradation issues its
\* request
\* (healthRes stays in the client's locals while that request is in flight)
HealthReturn(c, res) ==
  /\ pc[c] = "idle"
  /\ MonitoringIterations < MaxChecks
  /\ IF res.status = StatusOK /\ res.parses /\ res.memory # << >>
     THEN LET memoryMB == res.memory[1]
              baseline ==
                FirstWriterWins(testState.initialMetrics.memoryUsage, memoryMB)
              memoryIncrease == memoryMB - baseline
          IN  /\ testState' =
                   [testState EXCEPT !.initialMetrics.memoryUsage = baseline]
              /\ soakMetrics' =
                   [soakMetrics EXCEPT
                      !.memory_usage = @ + 1,
                      !.current_memory = <<memoryMB>>,
                      !.potential_leaks =
                        IF LeakSuspected(memoryIncrease, elapsed)
                        THEN @ + 1 ELSE @]
     ELSE UNCHANGED soakVars
  /\ Goto(c, "perf", [start |-> now, iter |-> loc[c].iter, healthRes |-> res])
  /\ UNCHANGED now
  /\ SoakUnchanged

\* minutes % 10 === 0 && !testState.checkpoints[minutes]
Checkpointed_EveryCheck(minutes) == minutes % 10 = 0

Checkpointed(minutes) ==
  minutes % 10 = 0 /\ minutes \notin DOMAIN testState.checkpoints

\* trackPerformanceDegradation after its request
PerfReturn(c) ==
  /\ pc[c] = "perf"
  /\ LET responseTime == now - loc[c].start
         baseline ==
           FirstWriterWins(testState.initialMetrics.responseTime, responseTime)
         degraded == (responseTime - baseline) * 5 > baseline
         minutes == elapsed \div MinuteMs
         checkpoint ==
           [time |-> now, responseTime |-> responseTime,
            memoryUsage |-> "current_memory",
            openConnections |->
              Cardinality(testState.resourceMonitor.openConnections),
            errorRate |-> "error_trend"]
     IN  /\ testState' =
              [testState EXCEPT
                 !.initialMetrics.responseTime = baseline,
                 !.checkpoints =
                   IF Checkpointed(minutes) THEN MapSet(@, minutes, checkpoint)
                   ELSE @]
         /\ soakMetrics' =
              [soakMetrics EXCEPT !.performance_degradation =
                 IF degraded THEN [@ EXCEPT !.pass = @ + 1]
                 ELSE [@ EXCEPT !.fail = @ + 1]]
  /\ Goto(c, "idle", [start |-> loc[c].start, iter |-> loc[c].iter])
  /\ UNCHANGED now
  /\ SoakUnchanged

\* the spike harness and the application are not part of a soak run
SpikeHarnessIdle ==
  /\ stageIdx = 1
  /\ K6_VUS = << >>
  /\ spikeStartTime = Null
  /\ recoveryStartTime = Null
  /\ createdPosts = << >>
  /\ verifiedPosts = {}
  /\ errorRate = [pass |-> 0, fail |-> 0]
  /\ spikeErrors = 0
  /\ recoveryTime = << >>
  /\ dataIntegrity = << >>
  /\ posts = << >>
  /\ postsById = << >>
  /\ RoutesIdle
  /\ creates = 0
  /\ setsThisExcursion = 0
  /\ lastUnresponsive = Null

SoakInit ==
  /\ now = Epoch
  /\ pc = [c \in SoakVUs |-> "idle"]
  /\ loc = [c \in SoakVUs |-> [start |-> Null, iter |-> 0]]
  /\ SpikeHarnessIdle
  /\ metrics = << >>
  /\ report = << >>
  /\ run = << >>
  /\ flow = << >>
  /\ testState = NewTestState
  /\ soakMetrics = NewSoakMetrics

SoakNext ==
  \/ \E d \in {PauseMs, LatencyMs} : SoakTick(d)
  \/ \E c \in SoakVUs, res \in HealthAnswers : HealthReturn(c, res)
  \/ \E c \in SoakVUs : PerfReturn(c)

SoakSpec == SoakInit /\ [][SoakNext]_vars

(***************************************************************************)
(* The soak profile: normalUserBehavior and the sessions it opens in       *)
(* testState.resourceMonitor.openConnections.                              *)
(***************************************************************************)
\* `session-${__VU}-${__ITER}`
SessionId(c) == <<c, loc[c].iter>>

\* what the posts list may be answered with: "posts" is an envelope with
\* posts, "empty" one with none, "object" JSON without data, "text" a body
\* that is not JSON, "none" no body
PostsBodies == {"posts", "empty", "object", "text", "none"}
PostsAnswers == [status : AnyStatuses, body : PostsBodies]

\* openConnections.add(sessionId)
OpenSession(openConnections, sessionId) == openConnections \cup {sessionId}

\* openConnections.delete(sessionId)
CloseSession_Keeps(openConnections, sessionId) == openConnections

CloseSession(openConnections, sessionId) == openConnections \ {sessionId}

\* the clients inside normalUserBehavior
InSession == {c \in SoakVUs : pc[c] # "idle"}

\* normalUserBehavior: a session begins and the main page is requested
SessionBegin(c) ==
  /\ pc[c] = "idle"
  /\ loc[c].iter < MaxIterations
  /\ testState' =
       [testState EXCEPT !.resourceMonitor.openConnections =
          OpenSession(@, SessionId(c))]
  /\ Goto(c, "main", loc[c])
  /\ UNCHANGED <<now, soakMetrics>>
  /\ SoakUnchanged

\* the main page is answered; after the pause the posts list is requested
SessionMainReturn(c) ==
  /\ pc[c] = "main"
  /\ Goto(c, "posts", loc[c])
  /\ UNCHANGED <<now, soakVars>>
  /\ SoakUnchanged

\* step 4 and the end of the session: with users, the users list is
\* requested; without, the session is closed and the client sleeps
SessionGoOn(c, browseUsers) ==
  IF browseUsers
  THEN /\ Goto(c, "users", loc[c])
       /\ UNCHANGED testState
  ELSE /\ Goto(c, "pause", loc[c])
       /\ testState' =
            [testState EXCEPT !.resourceMonitor.openConnections =
               CloseSession(@, SessionId(c))]

\* the posts list is answered
SessionPostsReturn(c, res, browseUsers) ==
  /\ pc[c] = "posts"
  /\ LET postsLoaded == res.status = StatusOK
     IN  /\ soakMetrics' =
              [soakMetrics EXCEPT !.potential_leaks =
                 IF postsLoaded THEN @ ELSE @ + 1]
         /\ IF postsLoaded /\ res.body = "posts"
            THEN /\ Goto(c, "detail", loc[c])
                 /\ UNCHANGED testState
            ELSE SessionGoOn(c, browseUsers)
  /\ UNCHANGED now
  /\ SoakUnchanged

\* the post is answered; its view is posted
SessionDetailReturn(c) ==
  /\ pc[c] = "detail"
  /\ Goto(c, "view", loc[c])
  /\ UNCHANGED <<now, soakVars>>
  /\ SoakUnchanged

\* the view is answered; with like, a like is posted
SessionViewReturn(c, like, browseUsers) ==
  /\ pc[c] = "view"
  /\ IF like
     THEN /\ Goto(c, "like", loc[c])
          /\ UNCHANGED testState
     ELSE SessionGoOn(c, browseUsers)
  /\ UNCHANGED <<now, soakMetrics>>
  /\ SoakUnchanged

SessionLikeReturn(c, browseUsers) ==
  /\ pc[c] = "like"
  /\ SessionGoOn(c, browseUsers)
  /\ UNCHANGED <<now, soakMetrics>>
  /\ SoakUnchanged

\* the users list is answered
SessionUsersReturn(c) ==
  /\ pc[c] = "users"
  /\ SessionGoOn(c, FALSE)
  /\ UNCHANGED <<now, soakMetrics>>
  /\ SoakUnchanged

\* the last sleep ends and normalUserBehavior returns
SessionReturn(c) ==
  /\ pc[c] = "pause"
  /\ Goto(c, "idle", [loc[c] EXCEPT !.iter = @ + 1])
  /\ UNCHANGED <<now, soakVars>>
  /\ SoakUnchanged

SessionNext ==
  \/ \E c \in SoakVUs : SessionBegin(c)
  \/ \E c \in SoakVUs : SessionMainReturn(c)
  \/ \E c \in SoakVUs, res \in PostsAnswers, browseUsers \in BOOLEAN :
       SessionPostsReturn(c, res, browseUsers)
  \/ \E c \in SoakVUs : SessionDetailReturn(c)
  \/ \E c \in SoakVUs, like \in BOOLEAN, browseUsers \in BOOLEAN :
       SessionViewReturn(c, like, browseUsers)
  \/ \E c \in SoakVUs, browseUsers \in BOOLEAN : SessionLikeReturn(c, browseUsers)
  \/ \E c \in SoakVUs : SessionUsersReturn(c)
  \/ \E c \in SoakVUs : SessionReturn(c)

SessionSpec == SoakInit /\ [][SessionNext]_vars

(***************************************************************************)
(* The soak profile: resourceIntensiveTask with activeRequests and the     *)
(* dataCache.  A Map is kept as the sequence of its entries in insertion   *)
(* order, which is the order of Map.prototype.keys().                      *)
(***************************************************************************)
\* if (testState.resourceMonitor.dataCache.size > 100)
CacheCapacity == 100

\* the time of the first task of the modelled part of the run
TaskEpoch == Epoch + CacheCapacity

\* what the heavy request may be answered with
TaskAnswers == [status : AnyStatuses, body : {"posts", "none"}]

Keys(map) == {map[i].key : i \in DOMAIN map}

\* Map.prototype.set on a Map kept in insertion order: the value of an
\* existing key is replaced where it is
OrderedSet(map, key, value) ==
  IF key \in Keys(map)
  THEN [i \in DOMAIN map |->
          IF map[i].key = key THEN [key |-> key, value |-> value] ELSE map[i]]
  ELSE Append(map, [key |-> key, value |-> value])

\* Map.prototype.delete
OrderedDelete(map, key) == SelectSeq(map, LAMBDA e : e.key # key)

\* if (dataCache.size > 100) dataCache.delete(dataCache.keys().next().value)
Evict_Never(dataCache) == dataCache

Evict(dataCache) ==
  IF Len(dataCache) > CacheCapacity
  THEN OrderedDelete(dataCache, dataCache[1].key)
  ELSE dataCache

\* the cache after n earlier tasks that succeeded, one per millisecond
FilledCache(n) == [i \in 1..n |-> [key |-> Epoch + i, value |-> "posts"]]

TasksInFlight == {c \in SoakVUs : pc[c] = "task"}

\* Date.now() between two tasks
TaskTick ==
  /\ now - TaskEpoch < MaxLatencies
  /\ now' = now + 1
  /\ UNCHANGED <<pc, loc, soakVars>>
  /\ SoakUnchanged

\* resourceIntensiveTask up to its request; taskId is `task-${Date.now()}`
TaskBegin(c) ==
  /\ pc[c] = "idle"
  /\ loc[c].iter < MaxIterations
  /\ testState' =
       [testState EXCEPT !.resourceMonitor.activeRequests =
          OrderedSet(@, now, now)]
  /\ Goto(c, "task", [loc[c] EXCEPT !.start = now])
  /\ UNCHANGED <<now, soakMetrics>>
  /\ SoakUnchanged

\* resourceIntensiveTask from the answer of its request to its return
TaskReturn(c, res) ==
  /\ pc[c] = "task"
  /\ LET taskId == loc[c].start
         success == res.status = StatusOK
     IN  /\ soakMetrics' =
              [soakMetrics EXCEPT !.potential_leaks =
                 IF success THEN @ ELSE @ + 1]
         /\ testState' =
              [testState EXCEPT
                 !.resourceMonitor.dataCache =
                   IF success /\ res.body # "none"
                   THEN Evict(OrderedSet(@, taskId, res.body))
                   ELSE @,
                 !.resourceMonitor.activeRequests = OrderedDelete(@, taskId)]
  /\ Goto(c, "idle", [loc[c] EXCEPT !.iter = @ + 1])
  /\ UNCHANGED now
  /\ SoakUnchanged

\* a run in which the cache is empty, one short of full, or full
CacheInit ==
  /\ now = TaskEpoch
  /\ pc = [c \in SoakVUs |-> "idle"]
  /\ loc = [c \in SoakVUs |-> [start |-> Null, iter |-> 0]]
  /\ SpikeHarnessIdle
  /\ metrics = << >>
  /\ report = << >>
  /\ run = << >>
  /\ flow = << >>
  /\ \E n \in {0, CacheCapacity - 1, CacheCapacity} :
       testState =
         [NewTestState EXCEPT !.resourceMonitor.dataCache = FilledCache(n)]
  /\ soakMetrics = NewSoakMetrics

CacheNext ==
  \/ TaskTick
  \/ \E c \in SoakVUs : TaskBegin(c)
  \/ \E c \in SoakVUs, res \in TaskAnswers : TaskReturn(c, res)

CacheSpec == CacheInit /\ [][CacheNext]_vars

(***************************************************************************)
(* The stage plans of the spike and stress profiles and the scheduler that *)
(* runs them.  Time is counted in units of 10 seconds, the largest unit    *)
(* that divides every duration and leaves steps inside the shortest ramp.  *)
(* The scheduler is the load shaper of the runtime: it holds the           *)
(* concurrency interpolated between the targets of consecutive stages.     *)
(***************************************************************************)
\* options.stages[].duration of spike.js, in units of 10 s
StageDurations == <<6, 3, 12, 3, 12, 3, 6, 3, 12>>

\* options.stages of stress.js: targets and durations
StressStages == <<100, 200, 300, 400, 500, 600, 600, 0>>
StressDurations == <<12, 18, 18, 18, 18, 18, 30, 18>>

StagePlan(targets, durations) ==
  [i \in DOMAIN targets |-> [duration |-> durations[i], target |-> targets[i]]]

PlanOf(profile) ==
  IF profile = "spike" THEN StagePlan(Stages, StageDurations)
  ELSE StagePlan(StressStages, StressDurations)

RECURSIVE CumulativeEnd(_, _)
\* the time at which stage i of the plan ends
CumulativeEnd(plan, i) ==
  IF i = 0 THEN 0 ELSE CumulativeEnd(plan, i - 1) + plan[i].duration

TotalDuration(plan) == CumulativeEnd(plan, Len(plan))

\* the stage whose interval contains time t; the last one at the end
StageAt(plan, t) ==
  IF t >= TotalDuration(plan) THEN Len(plan)
  ELSE CHOOSE i \in DOMAIN plan :
         CumulativeEnd(plan, i - 1) <= t /\ t < CumulativeEnd(plan, i)

MaxTarget(plan) ==
  CHOOSE m \in {plan[i].target : i \in DOMAIN plan} :
    \A i \in DOMAIN plan : plan[i].target <= m

\* linear interpolation from `from` to `to`, `dt` into a stage of length
\* `duration`
Interpolate_FromZero(from, to, dt, duration) ==
  from + (to * dt) \div duration

Interpolate(from, to, dt, duration) ==
  (from * (duration - dt) + to * dt) \div duration

\* C(t): the target concurrency at time t of the plan
TargetConcurrency(plan, t) ==
  LET i == StageAt(plan, t)
      from == IF i = 1 THEN 0 ELSE plan[i - 1].target
  IN  IF t >= TotalDuration(plan) THEN plan[i].target
      ELSE Interpolate(from, plan[i].target,
                       t - CumulativeEnd(plan, i - 1), plan[i].duration)

ShaperUnchanged == UNCHANGED <<metrics, report, flow, spikeVars, soakVars>>

\* the unit of time of the stage plans, in ms
UnitMs == 10000

\* Date.now() when the scheduler starts the first stage
RunStart == Epoch

\* the labels getCurrentStage returns, in the order of its tests
StageLabels ==
  <<"warmup", "spike1_ramp", "spike1_peak", "spike1_recovery", "normal1",
    "spike2_ramp", "spike2_peak", "spike2_recovery", "stabilization">>

\* getCurrentStage, with testData.startTime as the client reads it and
\* Date.now(); minutes < 1.5 is elapsed * 2 < 3 * 60000.  With startTime
\* undefined, elapsed is NaN and every comparison is false.
getCurrentStage(startTime, dateNow) ==
  IF startTime = << >> THEN "stabilization"
  ELSE LET elapsedMs == dateNow - startTime[1]
       IN  IF elapsedMs < MinuteMs THEN "warmup"
           ELSE IF elapsedMs * 2 < 3 * MinuteMs THEN "spike1_ramp"
           ELSE IF elapsedMs * 2 < 7 * MinuteMs THEN "spike1_peak"
           ELSE IF elapsedMs < 4 * MinuteMs THEN "spike1_recovery"
           ELSE IF elapsedMs < 6 * MinuteMs THEN "normal1"
           ELSE IF elapsedMs * 2 < 13 * MinuteMs THEN "spike2_ramp"
           ELSE IF elapsedMs * 2 < 15 * MinuteMs THEN "spike2_peak"
           ELSE IF elapsedMs < 8 * MinuteMs THEN "spike2_recovery"
           ELSE "stabilization"

\* testData.startTime as a client's default function may read it.  It is
\* assigned in setup() only, before the health request of setup(), which
\* is answered at once or one unit of time later; the scheduler starts
\* when setup() has returned.  A client whose module scope is not the one
\* setup() ran in reads undefined.
StartTimes == {<< >>, <<RunStart>>, <<RunStart - UnitMs>>}

\* default: const currentStage = getCurrentStage()
ReadStage ==
  /\ run.profile = "spike"
  /\ run' = [run EXCEPT !.currentStage =
               <<getCurrentStage(run.startTime,
                                 RunStart + run.elapsed * UnitMs)>>]
  /\ ShaperUnchanged

\* one unit of time passes; the live clients stay until the scheduler acts
ShaperTick ==
  /\ run.elapsed < TotalDuration(PlanOf(run.profile))
  /\ run.live = TargetConcurrency(PlanOf(run.profile), run.elapsed)
  /\ run' = [run EXCEPT !.elapsed = @ + 1]
  /\ ShaperUnchanged

\* the scheduler spawns or retires clients to reach C(t)
Reschedule ==
  /\ run.live # TargetConcurrency(PlanOf(run.profile), run.elapsed)
  /\ run' = [run EXCEPT
               !.live = TargetConcurrency(PlanOf(run.profile), run.elapsed)]
  /\ ShaperUnchanged

ShaperInit ==
  /\ SpikeIdle
  /\ SoakIdle
  /\ metrics = << >>
  /\ report = << >>
  /\ flow = << >>
  /\ run \in [profile : {"spike", "stress"}, elapsed : {0}, live : {0},
               startTime : StartTimes, currentStage : {<< >>}]
  /\ run.profile = "stress" => run.startTime = << >>

ShaperNext == ShaperTick \/ Reschedule \/ ReadStage

ShaperSpec == ShaperInit /\ [][ShaperNext]_vars

(***************************************************************************)
(* Properties                                                              *)
(***************************************************************************)
\* client c starts an iteration of the default function in this step
Began(c) == pc[c] = "idle" /\ pc'[c] # "idle"

\* measureRecovery returns to client c in this step
Probed(c) == pc[c] = "probe" /\ pc'[c] = "normal"

\* RECOVERING -> NORMAL fires in this step
Completes == recoveryStartTime # Null /\ recoveryStartTime' = Null

\* the number of success observations data_integrity holds for id
Successes(id) ==
  Cardinality({i \in 1..Len(dataIntegrity) : dataIntegrity[i] = <<id, 1>>})

\* C1: one excursion of live concurrency above the mark records one cycle:
\* spikeStartTime is set once between two rises of the live concurrency
\* above the mark.
C1_OneCyclePerExcursion == setsThisExcursion <= 1

\* C2: when RECOVERING -> NORMAL fires, the sample added to recovery_time
\* is the time elapsed since recoveryStartTime, and both timestamps are
\* cleared in that step.
C2_SampleIsRecoveryDuration ==
  [][Completes =>
       /\ recoveryTime' = Append(recoveryTime, now - recoveryStartTime)
       /\ spikeStartTime' = Null]_vars

\* C3: while a recovery is pending, before and after a step, the step adds
\* no sample to recovery_time.
C3_NoSampleWhilePending ==
  [][(recoveryStartTime # Null /\ recoveryStartTime' # Null)
       => recoveryTime' = recoveryTime]_vars

C6_ResponsiveContinuously ==
  [][Completes =>
       (lastUnresponsive = Null \/ now - lastUnresponsive >= DwellMs)]_vars

\* C26: RECOVERING -> NORMAL fires only in a step in which a recovery
\* probe returns responsive (its sample is added, its latency is under
\* 500 ms), more than 5 s after recoveryStartTime; a probe that returns
\* unresponsive (no sample is added) or within the 5 s leaves
\* spikeStartTime and recoveryStartTime as they are.
C26_CompletesOnResponsiveProbeAfterDwell ==
  [][/\ Completes =>
          /\ now - recoveryStartTime > DwellMs
          /\ \E c \in Clients :
               /\ Probed(c)
               /\ now - loc[c].start < ResponsiveMs
               /\ recoveryTime' = Append(recoveryTime, now - loc[c].start)
     /\ \A c \in Clients :
          (/\ Probed(c)
           /\ \/ recoveryTime' = recoveryTime
              \/ now - recoveryStartTime <= DwellMs) =>
             UNCHANGED <<spikeStartTime, recoveryStartTime>>]_vars

\* C26, witness: within the 5 s after recoveryStartTime one probe has
\* returned unresponsive and one responsive, and both timestamps are
\* still set.
C26_Witness ==
  /\ now = Epoch
  /\ spikeStartTime = Epoch
  /\ recoveryStartTime = Epoch
  /\ lastUnresponsive = Epoch
  /\ Len(recoveryTime) = 1

\* C7: a verifyDataIntegrity that picks an id already in verifiedPosts
\* issues no refetch and changes neither verifiedPosts nor data_integrity.
C7_VerifiedIdIsSkipped ==
  [][\A c \in Clients :
       (/\ loc[c].randomId = Null
        /\ loc'[c].randomId # Null
        /\ loc'[c].randomId \in verifiedPosts) =>
          /\ pc'[c] = "sleep"
          /\ verifiedPosts' = verifiedPosts
          /\ dataIntegrity' = dataIntegrity]_vars

\* C7, witness: a client has picked a verified id and has gone to sleep
\* without a refetch.
C7_Witness ==
  \E c \in Clients : pc[c] = "sleep" /\ loc[c].randomId \in verifiedPosts

\* C8: data_integrity holds at most one success observation per created
\* id, and exactly one for an id of verifiedPosts.
C8_OneSuccessPerId ==
  \A id \in DOMAIN createdPosts :
    /\ Successes(id) <= 1
    /\ id \in verifiedPosts <=> Successes(id) = 1

\* C9: every created post is answered by GET /api/posts/{id} with status
\* 200 and the title and content that were submitted.
C9_CreatedPostRoundTrips ==
  \A id \in DOMAIN createdPosts :
    /\ SingleGET(id).status = StatusOK
    /\ IsValid(SingleGET(id).data, createdPosts[id])

\* C10: createdPosts only grows: an entry stays as it is, and a new entry
\* is the payload of the client whose create request returns in the step.
C10_CreatedPostsOnlyGrows ==
  [][/\ \A id \in DOMAIN createdPosts :
          id \in DOMAIN createdPosts' /\ createdPosts'[id] = createdPosts[id]
     /\ \A id \in (DOMAIN createdPosts') \ (DOMAIN createdPosts) :
          \E c \in Clients :
            /\ pc[c] = "write" /\ pc'[c] = "sleep"
            /\ createdPosts'[id] = loc[c].postData]_vars

\* C11: every post of the store has an id of its own: a successful create
\* never stores a post under an id the store already holds, also when
\* several clients create within one clock millisecond.
C11_CreateIdsDistinct ==
  \A i, j \in DOMAIN posts : posts[i].id = posts[j].id => i = j

\* the lines of a sequence of lines
Lines(seq) == {seq[i] : i \in DOMAIN seq}

\* severity of a System Status
Severity(status) ==
  CASE status = "HEALTHY" -> 0
    [] status = "WARNING" -> 1
    [] status = "SLOW" -> 2
    [] status = "DEGRADED" -> 3
    [] status = "CRITICAL" -> 4

\* the levels whose condition the figures match
Matching(m) ==
  {"HEALTHY"}
  \cup (IF m.p99 > 10000 THEN {"WARNING"} ELSE {})
  \cup (IF m.p95 > 5000 THEN {"SLOW"} ELSE {})
  \cup (IF m.failed > 30 THEN {"DEGRADED"} ELSE {})
  \cup (IF m.failed > 50 THEN {"CRITICAL"} ELSE {})

StressReported == report # << >> /\ metrics.profile = "stress"

\* C12: the System Status of the stress summary is the most severe level
\* whose condition the failure rate, p95 and p99 match, HEALTHY when none
\* does.
C12_StatusIsWorstMatch ==
  StressReported =>
    /\ report.status \in Matching(metrics)
    /\ \A s \in Matching(metrics) : Severity(s) <= Severity(report.status)

\* C12, witness: p95 and p99 are both over their limits, the failure rate
\* is not, and a summary was made.
C12_Witness ==
  /\ StressReported
  /\ metrics.p95 > 5000 /\ metrics.p99 > 10000 /\ metrics.failed <= 30

\* C13: a failure rate over 50% gives System Status CRITICAL and the
\* circuit-breaker and retry advice, whatever the latencies are.
C13_MajorityFailureIsCritical ==
  (StressReported /\ metrics.failed > 50) =>
    /\ report.status = "CRITICAL"
    /\ {FailureAdvice[1], FailureAdvice[2]} \subseteq Lines(report.recommendations)

\* C13, witness: a summary of a run with a failure rate over 50% and every
\* latency figure at its lowest.
C13_Witness ==
  /\ StressReported
  /\ metrics.failed > 50 /\ metrics.p95 = 0 /\ metrics.slow = << >>

\* the value a metric of the run has, d when it received no sample
Measured(opt, d) == IF opt = << >> THEN d ELSE opt[1]

\* the run breached a threshold of its profile's recommendations
Breached(m) ==
  CASE m.profile = "stress" ->
         \/ m.failed > 10
         \/ m.p95 > 3000
         \/ m.failed > 30
         \/ Measured(m.slow, 0) > 100
    [] m.profile = "spike" ->
         \/ Measured(m.spike_errors, 0) > 100
         \/ Measured(m.recovery_time, 0) > DwellMs
         \/ Measured(m.data_integrity, 100) < 99
         \/ m.p99 > 10000
    [] m.profile = "soak" ->
         \/ Above(PerHour(Measured(m.memory_max, 0) - Measured(m.memory_min, 0),
                          m.minutes), 10)
         \/ Measured(m.performance_degradation, 0) > 10
         \/ Measured(m.potential_leaks, 0) > 10
         \/ m.p99 > 5000

NoAction(m) ==
  CASE m.profile = "stress" -> StressNoAction
    [] m.profile = "spike" -> SpikeNoAction
    [] m.profile = "soak" -> SoakNoAction

Recommended ==
  report # << >> /\ metrics.profile \in {"stress", "spike", "soak"}

\* C14: the recommendations of a summary are never empty; they are the
\* profile's "no action needed" message when the run breached no threshold
\* of the recommendations, and hold no line of it when the run breached
\* one.
C14_NoActionIffNothingBreached ==
  Recommended =>
    /\ report.recommendations # << >>
    /\ ~Breached(metrics) => report.recommendations = NoAction(metrics)
    /\ Breached(metrics) =>
         Lines(report.recommendations) \cap Lines(NoAction(metrics)) = {}

\* the memory line of the soak report
SoakReported == report # << >> /\ metrics.profile = "soak"

\* C15: the memory verdict of the soak report is 'stable' below 10 MB/h,
\* 'moderate' from 10 to 50 MB/h and 'leak-suspected' only above 50 MB/h,
\* of growth per hour = memoryGrowth / elapsed minutes * 60.
C15_MemoryTiers ==
  SoakReported =>
    LET growth == Measured(metrics.memory_max, 0) - Measured(metrics.memory_min, 0)
        perHour == PerHour(growth, metrics.minutes)
        line == report.stability[1]
    IN  /\ Below(perHour, 10) <=>
             line = "Memory usage stable (< 10MB/hour growth)"
        /\ Above(perHour, 50) <=>
             line = "Significant memory growth (> 50MB/hour) - possible leak"
        /\ (~Below(perHour, 10) /\ ~Above(perHour, 50)) <=>
             line = "Moderate memory growth detected (10-50MB/hour)"

\* C16: the result a smoke or load summary prints is PASSED exactly when
\* every threshold of the profile's options.thresholds holds.
C16_VerdictFollowsThresholds ==
  /\ (report # << >> /\ metrics.profile = "smoke") =>
        (report.verdict = "PASSED" <=> SmokeThresholds(metrics))
  /\ (report # << >> /\ metrics.profile = "load") =>
        (report.verdict = "PASSED" <=> LoadThresholds(metrics))

\* C17: when the health endpoint does not answer 200 before the run
\* starts, no client runs an iteration, whatever the profile.
C17_UnhealthyTargetRunsNothing ==
  run # << >> /\ run.health # StatusOK =>
    /\ run.phase \notin {"running", "done"}
    /\ \A c \in LifeCycleVUs : run.iterations[c] = 0

\* C18: no exception leaves a scenario: whatever a request is answered,
\* the scenario returns and the client's iteration goes on.
C18_NoErrorEscapes == flow # << >> => flow.thrown = 0

\* performance checks and memory samples made so far
PerfChecks ==
  soakMetrics.performance_degradation.pass + soakMetrics.performance_degradation.fail

MemorySamples == soakMetrics.memory_usage

\* C19: the baseline response time and the baseline memory are those of
\* the first observation and no later observation changes them.
C19_BaselineSetOnce ==
  [][/\ PerfChecks > 0 =>
          testState'.initialMetrics.responseTime =
            testState.initialMetrics.responseTime
     /\ MemorySamples > 0 =>
          testState'.initialMetrics.memoryUsage =
            testState.initialMetrics.memoryUsage]_vars

\* C20: a checkpoint, once written for a bucket of elapsed minutes, stays
\* as it is.
C20_CheckpointWrittenOnce ==
  [][\A m \in DOMAIN testState.checkpoints :
       /\ m \in DOMAIN testState'.checkpoints
       /\ testState'.checkpoints[m] = testState.checkpoints[m]]_vars

\* C20, witness: the bucket of minute 0 holds a checkpoint and a client
\* has finished a performance check that it began in the same bucket after
\* the checkpoint was written.
C20_Witness ==
  /\ 0 \in DOMAIN testState.checkpoints
  /\ PerfChecks = 2
  /\ \E c \in SoakVUs :
       /\ pc[c] = "idle"
       /\ loc[c].start > testState.checkpoints[0].time
       /\ (loc[c].start - testState.startTime) \div MinuteMs = 0

\* the sessions client c has open
SessionsOf(c) ==
  {id \in testState.resourceMonitor.openConnections : id[1] = c}

\* C21: openConnections holds no more sessions than there are clients
\* inside normalUserBehavior, none of a client that is outside it, and the
\* session of an invocation is gone when the invocation returns.
C21_SessionsClosed ==
  /\ Cardinality(testState.resourceMonitor.openConnections)
       <= Cardinality(InSession)
  /\ \A c \in SoakVUs : pc[c] \in {"idle", "pause"} => SessionsOf(c) = {}

\* C21, witness: one client has closed the session of its second
\* invocation after a posts list that failed while the other is inside
\* its session.
C21_Witness ==
  /\ soakMetrics.potential_leaks > 0
  /\ \E c, d \in SoakVUs :
       /\ pc[c] = "pause" /\ loc[c].iter = 1
       /\ pc[d] = "detail"
       /\ testState.resourceMonitor.openConnections = {SessionId(d)}

dataCache == testState.resourceMonitor.dataCache

\* resourceIntensiveTask returns in this step
TaskCompletes == \E c \in SoakVUs : pc[c] = "task" /\ pc'[c] = "idle"

\* C22: the dataCache never holds more than 100 entries and activeRequests
\* is empty when no task is in flight; a task that completes with a failed
\* request leaves the cache as it is, and one that inserts into a full
\* cache evicts the oldest entry and no other.
C22_CacheBounded ==
  /\ [](Len(dataCache) <= CacheCapacity)
  /\ [](TasksInFlight = {} => testState.resourceMonitor.activeRequests = << >>)
  /\ [][TaskCompletes =>
          LET dataCacheAfter == testState'.resourceMonitor.dataCache
              evicted == Keys(dataCache) \ Keys(dataCacheAfter)
          IN  /\ soakMetrics'.potential_leaks # soakMetrics.potential_leaks
                   => dataCacheAfter = dataCache
              /\ evicted =
                   IF Keys(dataCacheAfter) # Keys(dataCache)
                        /\ Len(dataCache) = CacheCapacity
                   THEN {dataCache[1].key} ELSE {}]_vars

\* C22, witness: the entry that was the oldest of a full cache has been
\* evicted by a completed task, a request has failed and no task is in
\* flight.
C22_Witness ==
  /\ Len(dataCache) = CacheCapacity
  /\ dataCache[1].key = Epoch + 2
  /\ soakMetrics.potential_leaks > 0
  /\ TasksInFlight = {}

RequestStates == {"read", "write", "refetch", "probe", "normal"}

\* Params.timeout of the request in flight in `state`, in ms; << >> when
\* the request is issued without one
Timeout(state) ==
  CASE state \in {"read", "write"} -> <<15000>>
    [] state = "refetch" -> <<10000>>
    [] state = "probe" -> <<ProbeTimeoutMs>>
    [] OTHER -> << >>

\* C24: every request a client has in flight carries a timeout.
C24_EveryRequestHasTimeout ==
  \A c \in Clients : pc[c] \in RequestStates => Timeout(pc[c]) # << >>

\* client c runs monitorSystemHealth in this step
Monitored(c) == pc[c] = "idle" /\ pc'[c] = "perf"

C27_RecoveryCompletes ==
  (spikeStartTime # Null /\ stageIdx = Len(Stages))
    ~> (spikeStartTime = Null /\ recoveryStartTime = Null)

\* C28: the label getCurrentStage returns is that of the stage of the
\* spike plan whose interval contains the time elapsed since the start of
\* the run.
C28_LabelOfActiveStage ==
  [][run'.currentStage # run.currentStage =>
       run'.currentStage =
         <<StageLabels[StageAt(PlanOf("spike"), run.elapsed)]>>]_vars

\* the refetch of verifyDataIntegrity returns to client c in this step
Refetched(c) == pc[c] = "refetch" /\ pc'[c] # "refetch"

\* C29: a verifyDataIntegrity that issued a refetch adds exactly one
\* observation to data_integrity, for the id it checked.
C29_OneObservationPerRefetch ==
  [][\A c \in Clients :
       Refetched(c) =>
         \E v \in {0, 1} :
           dataIntegrity' = Append(dataIntegrity, <<loc[c].randomId, v>>)]_vars

\* C30: while the live concurrency is above the mark, recoveryStartTime is
\* not set and no recovery completes.
C30_NoRecoveryAboveMark ==
  [][liveVUs > HighWaterMark =>
       /\ recoveryStartTime = Null => recoveryStartTime' = Null
       /\ ~Completes]_vars


C32_VerifiedWithinCreated ==
  /\ [](/\ verifiedPosts \subseteq DOMAIN createdPosts
        /\ Cardinality(verifiedPosts) <= Cardinality(DOMAIN createdPosts))
  /\ [][\A id \in verifiedPosts' \ verifiedPosts :
          /\ \E c \in Clients : /\ pc[c] = "refetch"
                                /\ loc[c].randomId = id
                                /\ pc'[c] = "sleep"
          /\ dataIntegrity' = Append(dataIntegrity, <<id, 1>>)]_vars

\* one created post is verified, another is not, and a refetch has failed
C32_Witness ==
  /\ verifiedPosts # {}
  /\ Cardinality(verifiedPosts) < Cardinality(DOMAIN createdPosts)
  /\ \E i \in 1..Len(dataIntegrity) : dataIntegrity[i][2] = 0

\* C33: the integrity tier of the spike summary follows the measured
\* data_integrity rate: above 99 % 'Perfect', above 95 % 'Good', otherwise
\* 'concerns'; a run whose integrity observations all failed (rate 0) is
\* reported with 'Data integrity concerns detected' and the integrity
\* recommendations, never with 'Perfect data integrity maintained'.
C33_IntegrityTierFollowsRate ==
  (report # << >> /\ metrics.profile = "spike") =>
    LET rate == Measured(metrics.data_integrity, 100)
        tier == IF rate > 99 THEN "Perfect data integrity maintained"
                ELSE IF rate > 95 THEN "Good data integrity (>95%)"
                ELSE "Data integrity concerns detected"
    IN  /\ report.analysis[3] = tier
        /\ rate = 0 =>
             /\ "Perfect data integrity maintained" \notin Lines(report.analysis)
             /\ Lines(IntegrityAdvice) \subseteq Lines(report.recommendations)

\* C34: the soak report is self-consistent: the recommendations are the
\* fallback 'System shows excellent long-term stability' only when the
\* overall verdict of the stability assessment is not 'ATTENTION NEEDED',
\* and whenever the assessment reports the memory growth as not stable
\* (10 MB/h or more) the recommendations hold the memory-leak advice.
C34_SoakReportConsistent ==
  SoakReported =>
    /\ report.recommendations = SoakNoAction =>
         report.stability[4] #
           "ATTENTION NEEDED: System shows signs of instability"
    /\ report.stability[1] # "Memory usage stable (< 10MB/hour growth)" =>
         Lines(MemoryAdvice) \subseteq Lines(report.recommendations)

\* C35: every request of readSpike and writeSpike contributes exactly one
\* observation to the errors Rate, a failure exactly when the request
\* failed, and spike_errors counts those failures: the observations of the
\* Rate are as many as the requests answered and its failures as many as
\* the failed requests.
C35_OneErrorObservationPerRequest ==
  /\ errorRate.pass + errorRate.fail = metrics.requests
  /\ errorRate.fail = metrics.failed
  /\ spikeErrors = errorRate.fail

\* the handlers started so far for `id` on `route`, by their position
CallsFor(route, id) ==
  {i \in DOMAIN calls : calls[i].route = route /\ calls[i].id = id}

\* the count a route stores for `id`, 0 when it stores none
StoredCount(route, id) ==
  LET counts == IF route = "like" THEN likeCounts ELSE viewCounts
  IN  IF id \in DOMAIN counts THEN counts[id] ELSE 0

\* C36: for any number n of like (respectively view) requests for one id,
\* in any interleaving, the stored count of the id is n and the n responses
\* carry the values 1..n, each exactly once; a request changes the count of
\* no other id and no count of the other route.
C36_NoLostUpdate ==
  /\ [](\A route \in {"like", "view"}, id \in RequestIds :
          LET n == Cardinality(CallsFor(route, id))
          IN  /\ StoredCount(route, id) = n
              /\ \A v \in 1..n :
                   Cardinality({i \in CallsFor(route, id) :
                                  calls[i].value = v}) = 1)
  /\ [][\A i \in DOMAIN calls' \ DOMAIN calls :
          \A route \in {"like", "view"}, id \in RequestIds :
            (route # calls'[i].route \/ id # calls'[i].id) =>
              StoredCount(route, id)' = StoredCount(route, id)]_vars

\* of the like requests for one id a later one has responded before an
\* earlier one, and a view request has been handled as well
C36_Witness ==
  /\ Cardinality(CallsFor("like", 1)) >= 2
  /\ \E i, j \in CallsFor("like", 1) :
       i < j /\ ~calls[i].answered /\ calls[j].answered
  /\ \E i \in DOMAIN calls : calls[i].route = "view"

\* a step in which POST /api/users has answered a request
UsersAnswered == answer' # answer \/ users' # users

\* the e-mail addresses of the users store are pairwise distinct
EmailsDistinct ==
  \A i, j \in DOMAIN users : users[i].email = users[j].email => i = j

\* the request answered lacks a name or an e-mail
LacksField(body) == body.name = Null \/ body.email = Null

\* the e-mail of the request answered is in the store before the step
Known(body) ==
  body.email # Null /\ \E i \in DOMAIN users : users[i].email = body.email

\* the step appends exactly one user, with the name and e-mail of `body`
AppendsOne(body) ==
  /\ Len(users') = Len(users) + 1
  /\ SubSeq(users', 1, Len(users)) = users
  /\ users'[Len(users')].name = body.name
  /\ users'[Len(users')].email = body.email

\* C37 as stated: the e-mail addresses are pairwise distinct; a request
\* whose e-mail already exists answers 409 and a request without name or
\* e-mail answers 400, both leaving the store unchanged, and every other
\* request answers 201 and appends exactly one user.
C37_AsStated ==
  /\ []EmailsDistinct
  /\ [][UsersAnswered =>
          LET body == answer'.body
          IN  /\ Known(body) =>
                   answer'.status = StatusConflict /\ users' = users
              /\ LacksField(body) =>
                   answer'.status = StatusBadRequest /\ users' = users
              /\ (~Known(body) /\ ~LacksField(body)) =>
                   answer'.status = StatusCreated /\ AppendsOne(body)]_vars

\* C37, amended: the e-mail addresses are pairwise distinct; a request
\* without name or e-mail answers 400, also when its e-mail already exists;
\* a request with both whose e-mail already exists answers 409; both leave
\* the store unchanged, and every other request answers 201 and appends
\* exactly one user.
C37_DistinctEmails ==
  /\ []EmailsDistinct
  /\ [][UsersAnswered =>
          LET body == answer'.body
          IN  /\ LacksField(body) =>
                   answer'.status = StatusBadRequest /\ users' = users
              /\ (~LacksField(body) /\ Known(body)) =>
                   answer'.status = StatusConflict /\ users' = users
              /\ (~LacksField(body) /\ ~Known(body)) =>
                   answer'.status = StatusCreated /\ AppendsOne(body)]_vars

\* two users have been appended, and the latest request, with the e-mail
\* of one of them, was answered 409
C37_Witness ==
  /\ Len(users) = NumSeedUsers + 2
  /\ answer # << >>
  /\ answer.status = StatusConflict
  /\ answer.body.email > NumSeedUsers

\* a step in which the single-post route has answered a request
PostAnswered == answer' # answer \/ postsById' # postsById

\* the answer is a failure 404 with {success: false, error}, and the store
\* is as before
NotFoundUnchanged ==
  /\ answer'.status = StatusNotFound
  /\ ~answer'.success
  /\ answer'.error # << >>
  /\ postsById' = postsById

\* the step changes at most title, content and updatedAt of the post `id`
\* and nothing of any other post
OnlyEdits(id) ==
  /\ DOMAIN postsById' = DOMAIN postsById
  /\ \A x \in DOMAIN postsById :
       IF x = id
       THEN \A f \in {"id", "authorId", "views", "likes", "createdAt"} :
              postsById'[x][f] = postsById[x][f]
       ELSE postsById'[x] = postsById[x]

\* after a successful DELETE of an id, GET and a second DELETE of the id
\* answer 404; a successful PUT changes only title, content and updatedAt
\* of its post
AfterDeleteAndPut ==
  /\ (/\ answer'.id \in DOMAIN seedPostsById
      /\ answer'.id \notin DOMAIN postsById
      /\ answer'.method \in {"GET", "DELETE"})
       => answer'.status = StatusNotFound
  /\ DOMAIN postsById' \subseteq DOMAIN postsById
  /\ (answer'.method = "PUT" /\ answer'.status = StatusOK)
       => answer'.success /\ OnlyEdits(answer'.id)
  /\ (answer'.method = "DELETE" /\ answer'.status = StatusOK)
       => postsById' = MapDelete(postsById, answer'.id)
  /\ answer'.method = "GET" => postsById' = postsById

\* C38 as stated: GET, PUT and DELETE for an id that is not in the posts
\* store answer 404 with {success: false, error} and leave the store
\* unchanged; after a successful DELETE of an id, GET and a second DELETE
\* of it answer 404; a successful PUT changes only title, content and
\* updatedAt of that one post.
C38_AsStated ==
  [][PostAnswered =>
       /\ answer'.id \notin DOMAIN postsById => NotFoundUnchanged
       /\ AfterDeleteAndPut]_vars

\* C38, amended: GET and DELETE, and PUT with a body that can be read, for
\* an id that is not in the posts store answer 404 with {success: false,
\* error}; PUT with a body that cannot be read answers 400 for any id; all
\* of them leave the store unchanged; the rest as stated.
C38_MissingIdAnswers404 ==
  [][PostAnswered =>
       /\ (/\ answer'.id \notin DOMAIN postsById
           /\ answer'.body.kind # "unparseable") => NotFoundUnchanged
       /\ answer'.body.kind = "unparseable" =>
            /\ answer'.status = StatusBadRequest
            /\ ~answer'.success
            /\ postsById' = postsById
       /\ AfterDeleteAndPut]_vars

\* post 1 was deleted and a GET of it has just been answered 404, while
\* post 2 carries a title a PUT gave it
C38_Witness ==
  /\ 1 \notin DOMAIN postsById
  /\ answer # << >>
  /\ answer.method = "GET" /\ answer.id = 1
  /\ answer.status = StatusNotFound
  /\ 2 \in DOMAIN postsById
  /\ postsById[2].title # seedPostsById[2].title
  /\ postsById[2].updatedAt > Epoch
====
